---------------------------- MODULE Spec2Model ----------------------------
(***************************************************************************)
(* A model of the yasnac repository: the FC1 floppy-disk emulator          *)
(* (src/src/packets.py, src/disk/motodisk.py) and the ERC serial library   *)
(* (src/remote/erc.py).                                                    *)
(*                                                                         *)
(* Strings are sequences of byte values (0..255), as Python 2 str is.      *)
(* An exception is a value: a function that can raise returns a record    *)
(* whose field `kind` is "ok" or the name of the exception class.          *)
(*                                                                         *)
(* The module holds several specifications over one set of variables; a   *)
(* specification leaves the variables of the other parts at their idle    *)
(* values.                                                                 *)
(***************************************************************************)
EXTENDS Integers, Sequences, FiniteSets, TLC

VARIABLES
    \* ---- packets.encode / packets.decode applied to one payload
    c_payload,      \* the payload handed to encode
    c_enc,          \* result of encode(c_payload), or kind "none"
    c_dec,          \* result of decode(frame), or kind "none"
    \* ---- erc.encode / erc.decode applied to one message
    b_in,           \* the header code, body and name_block handed to encode
    b_enc,          \* result of encode, or kind "none"
    b_dec,          \* results of decode, one per block encode returned
    b_ext,          \* result of header_extension_lookup, or <<"none">>
    \* ---- namefix applied to one file, and again to its result
    n_in,           \* the module, the file name and the content handed in
    n_out,          \* the results so far: namefix(content), then of that
    \* ---- SoftFC1.input_packet_streamer over a byte source
    s_in,           \* what the peer puts on the wire (kept to state claims)
    wire,           \* bytes written by the peer and not yet read
    burst,          \* TRUE: raw_read returns all pending bytes at once
    parse_buffer,   \* the generator's rolling buffer
    yielded,        \* frames yielded so far, each with the bytes consumed
    consumed,       \* bytes removed from parse_buffer so far
    gen,            \* "running" or the exception that ended the generator
    gpc,            \* where the generator stands: "top", "decode", "more"
    lastDecode,     \* outcome of the most recent packets.decode call
    \* ---- SoftFC1.emulate, fed with decoded frames
    filelist,       \* self.filelist: the names given on the command line
    overwrite,      \* self.overwrite
    files,          \* the working directory: file name -> content
    pc,             \* "idle" (emulate reads a command), "cw" (inside
                    \* confirmed_write), "fwt" (the file-write loop), or
                    \* the exception that ended emulate
    cur,            \* confirmed_write's message
    todo,           \* the messages the transaction confirms after cur
    limit,          \* confirmed_write's limit
    cwWrites,       \* times confirmed_write has written cur (observer)
    outname,        \* the file the file-write loop has open
    was,            \* pc before the last step (observer)
    got,            \* the frame read by the last step (observer)
    wrote,          \* the frames written by the last step (observer)
    txn,            \* the frames written since the last command was read,
                    \* each with the frame read before it; repeats of a
                    \* confirmed write left out (observer)
    taken,          \* frames the engine has taken from input_packets
    \* ---- ERC engines (src/remote/erc.py) at the two ends of a serial link
    ack_bit,        \* engine -> self.ack_bit
    epc,            \* engine -> the raw_read the engine waits in, or how
                    \* its call ended
    link,           \* engine -> the writes of the peer it has not read yet
    expected,       \* engine -> expected_reply / expected_ack
    msg,            \* engine -> the message short_message / put_file sends
    outq,           \* engine -> the blocks still to confirm, first in flight
    tries,          \* engine -> transmissions of the block in flight
    ctx,            \* engine -> the caller the transaction returns to
    rx,             \* engine -> the message read_message assembles
    disk,           \* engine -> its directory: file name -> content
    ret,            \* engine -> what its call returned or raised
    trace           \* the calls, reads and writes so far (observer)

codecVars  == <<c_payload, c_enc, c_dec, b_in, b_enc, b_dec, b_ext, n_in,
                n_out>>
streamVars == <<s_in, wire, burst, parse_buffer, yielded, consumed, gen,
                gpc, lastDecode>>
fc1Vars == <<filelist, overwrite, files, pc, cur, todo, limit, cwWrites,
             outname, was, got, wrote, txn, taken>>
ercVars == <<ack_bit, epc, link, expected, msg, outq, tries, ctx, rx, disk,
             ret, trace>>
vars == <<codecVars, streamVars, fc1Vars, ercVars>>

---------------------------------------------------------------------------
(* Bounds of the model *)

\* longest payload enumerated byte by byte
MaxLen == 3

---------------------------------------------------------------------------
(* Python helpers *)

RECURSIVE SumRange(_, _, _)
\* s[lo] + ... + s[hi], by halving (keeps the evaluation shallow)
SumRange(s, lo, hi) ==
    IF lo > hi THEN 0
    ELSE IF lo = hi THEN s[lo]
    ELSE LET mid == (lo + hi) \div 2
         IN  SumRange(s, lo, mid) + SumRange(s, mid + 1, hi)

\* sum([ord(c) for c in s])
Sum(s) == SumRange(s, 1, Len(s))

Min(a, b) == IF a < b THEN a ELSE b
Max(a, b) == IF a > b THEN a ELSE b

\* s[a:b] with 0 <= a, b (Python slice: half-open, clipped to the string)
Slice(s, a, b) == SubSeq(s, a + 1, Min(b, Len(s)))

\* s[a:]
From(s, a) == SubSeq(s, a + 1, Len(s))

\* s.startswith(p)
StartsWith(s, p) == Len(s) >= Len(p) /\ SubSeq(s, 1, Len(p)) = p

\* a string of n copies of byte b
Rep(b, n) == [i \in 1..n |-> b]

\* struct.pack("<H", v) of Python 2.7: two bytes little-endian; a value
\* outside 0..65535 raises struct.error (no masking)
PackH(v) == IF v \in 0..65535
            THEN [kind |-> "ok", bytes |-> <<v % 256, v \div 256>>]
            ELSE [kind |-> "struct.error", bytes |-> <<>>]

\* struct.unpack("<H", s)[0]; the caller checks Len(s) = 2
UnpackH(s) == s[1] + 256 * s[2]

---------------------------------------------------------------------------
(* src/src/packets.py *)

\* the minuend of the checksum expression 65536 - sum(...)
ChecksumBase == 65536

\* a checksum that leaves the two length bytes out of the sum
checksum_of_payload(bytes) == ChecksumBase - Sum(From(bytes, 2))

\* 65536 - sum([ord(c) for c in bytes])
packets_checksum(bytes) == ChecksumBase - Sum(bytes)

\* encode(payload)
packets_encode(payload) ==
    LET length_str == PackH(Len(payload))
    IN  IF length_str.kind # "ok"
        THEN [kind |-> "struct.error", frame |-> <<>>]
        ELSE LET checksum ==
                     PackH(packets_checksum(length_str.bytes \o payload))
             IN  IF checksum.kind # "ok"
                 THEN [kind |-> "struct.error", frame |-> <<>>]
                 ELSE [kind |-> "ok",
                       frame |-> <<2>> \o length_str.bytes \o payload
                                      \o checksum.bytes]

DecodeFail(k) == [kind |-> k, data |-> <<>>, consumed |-> 0]

\* decode(packet)
packets_decode(packet) ==
    IF ~StartsWith(packet, <<2>>)
    THEN DecodeFail("InvalidPacketHeader")
    ELSE IF Len(Slice(packet, 1, 3)) # 2
    THEN DecodeFail("struct.error")        \* unpack of a short string
    ELSE LET length  == UnpackH(Slice(packet, 1, 3))
         IN  IF Len(packet) < length + 5
             THEN DecodeFail("NeedMoreInput")
             ELSE LET payload == Slice(packet, 1, 3 + length)
                      stated_checksum ==
                          Slice(packet, 3 + length, 5 + length)
                      calc_checksum == PackH(packets_checksum(payload))
                  IN  IF calc_checksum.kind # "ok"
                      THEN DecodeFail("struct.error")
                      ELSE IF stated_checksum # calc_checksum.bytes
                      THEN DecodeFail("ValueError")
                      ELSE [kind |-> "ok", data |-> From(payload, 2),
                            consumed |-> length + 5]

---------------------------------------------------------------------------
(* Inputs *)

\* byte values that exercise the checksum arithmetic and the header test
Bytes == {0, 2, 65, 255}

RECURSIVE SeqsUpTo(_, _)
\* all strings over S of length 0..n
SeqsUpTo(S, n) ==
    IF n = 0 THEN {<<>>}
    ELSE LET shorter == SeqsUpTo(S, n - 1)
         IN  shorter \cup {Append(s, b) : s \in shorter, b \in S}

\* the longest payload of an FC1 frame: verb + 255 data bytes
MaxPayload == 258

\* payloads: every short string, and strings of the greatest length
Payloads == SeqsUpTo(Bytes, MaxLen)
              \cup {Rep(b, n) : b \in Bytes, n \in {MaxPayload - 1, MaxPayload}}

NoEnc == [kind |-> "none", frame |-> <<>>]

NoBlocks == [kind |-> "none", blocks |-> <<>>]

NamefixIdle == /\ n_in = [module |-> "none", filename |-> <<>>,
                          content |-> <<>>]
               /\ n_out = <<>>

BscIdle == /\ b_in = [header_code |-> <<>>, body |-> <<>>,
                      name_block |-> FALSE]
           /\ b_enc = NoBlocks
           /\ b_dec = <<>>
           /\ b_ext = <<"none">>
           /\ NamefixIdle

CodecIdle == /\ c_payload = <<>>
             /\ c_enc = NoEnc
             /\ c_dec = DecodeFail("none")
             /\ BscIdle

StreamIdle == /\ s_in = [pre |-> <<>>, p1 |-> <<>>, bad1 |-> FALSE,
                         two |-> FALSE, p2 |-> <<>>]
              /\ wire = <<>>
              /\ burst = FALSE
              /\ parse_buffer = <<>>
              /\ yielded = <<>>
              /\ consumed = 0
              /\ gen = "idle"
              /\ gpc = "top"
              /\ lastDecode = "none"

\* the two ends of the serial link
Engines == {"driver", "server"}

NoMsg == [header |-> <<>>, body |-> <<>>, name_block |-> FALSE]
NoRx == [body |-> <<>>, header |-> <<>>, footer |-> <<>>]
NoRet == [kind |-> "none", value |-> <<>>]

ErcIdle == /\ ack_bit = [e \in Engines |-> FALSE]
           /\ epc = [e \in Engines |-> "off"]
           /\ link = [e \in Engines |-> <<>>]
           /\ expected = [e \in Engines |-> <<>>]
           /\ msg = [e \in Engines |-> NoMsg]
           /\ outq = [e \in Engines |-> <<>>]
           /\ tries = [e \in Engines |-> 0]
           /\ ctx = [e \in Engines |-> "none"]
           /\ rx = [e \in Engines |-> NoRx]
           /\ disk = [e \in Engines |-> <<>>]
           /\ ret = [e \in Engines |-> NoRet]
           /\ trace = <<>>

Fc1Idle == /\ filelist = <<>>
           /\ overwrite = FALSE
           /\ files = <<>>
           /\ pc = "off"
           /\ cur = <<>>
           /\ todo = <<>>
           /\ limit = 0
           /\ cwWrites = 0
           /\ outname = <<>>
           /\ was = "off"
           /\ got = <<>>
           /\ wrote = <<>>
           /\ txn = <<>>
           /\ taken = 0

---------------------------------------------------------------------------
(* Specification SpecCodec: encode a payload, then decode the frame *)

InitCodec == /\ c_payload \in Payloads
             /\ c_enc = NoEnc
             /\ c_dec = DecodeFail("none")
             /\ BscIdle
             /\ StreamIdle
             /\ Fc1Idle
             /\ ErcIdle

\* frame = packets.encode(payload)
Encode == /\ c_enc.kind = "none"
          /\ c_enc' = packets_encode(c_payload)
          /\ UNCHANGED <<c_payload, c_dec, streamVars, fc1Vars, ercVars>>
          /\ UNCHANGED <<b_in, b_enc, b_dec, b_ext, n_in, n_out>>

\* packets.decode(frame), when encode returned a frame
Decode == /\ c_enc.kind = "ok"
          /\ c_dec.kind = "none"
          /\ c_dec' = packets_decode(c_enc.frame)
          /\ UNCHANGED <<c_payload, c_enc, streamVars, fc1Vars, ercVars>>
          /\ UNCHANGED <<b_in, b_enc, b_dec, b_ext, n_in, n_out>>

NextCodec == Encode \/ Decode

SpecCodec == InitCodec /\ [][NextCodec]_vars

---------------------------------------------------------------------------
(* The frame of the wire format: 0x02, LEN little-endian, the payload,    *)
(* CHK = (65536 - (LEN_LO + LEN_HI + sum(payload))) mod 65536             *)
(* little-endian.  Used to state claims and to build the peer's input.    *)

WireChecksum(payload) ==
    (65536 - ((Len(payload) % 256) + (Len(payload) \div 256) + Sum(payload)))
        % 65536

WireFrame(payload) ==
    <<2, Len(payload) % 256, Len(payload) \div 256>> \o payload
        \o <<WireChecksum(payload) % 256, WireChecksum(payload) \div 256>>

\* a frame whose stated checksum is not the computed one
Corrupt(frame) ==
    [frame EXCEPT ![Len(frame)] = (frame[Len(frame)] + 1) % 256]

(* C5: FC1 round trip: for every payload p of 0 to 258 bytes, encode(p)   *)
(* is a frame and decoding it yields (p, |p| + 5).                         *)
C5_RoundTrip ==
    /\ c_enc.kind # "none" => c_enc.kind = "ok"
    /\ c_dec.kind # "none" =>
           c_dec = [kind |-> "ok", data |-> c_payload,
                    consumed |-> Len(c_payload) + 5]

(* C6: for every payload of 0 to 258 arbitrary bytes the encoder produces *)
(* 0x02, LEN_LO, LEN_HI, payload, CHK_LO, CHK_HI with                      *)
(* CHK = (65536 - (LEN_LO + LEN_HI + sum(payload))) mod 65536.             *)
C6_FrameLayout ==
    c_enc.kind # "none" =>
        c_enc = [kind |-> "ok", frame |-> WireFrame(c_payload)]

---------------------------------------------------------------------------
(* Specification SpecStream: SoftFC1.input_packet_streamer, pulled by a   *)
(* consumer that always asks for the next frame, over a peer's bytes      *)

\* the letters E, N, Q
ENQ3 == <<69, 78, 81>>

P1Set == {<<>>, <<65>>, <<2>>, ENQ3}
P2Set == {<<65>>, ENQ3}

\* one stray byte (never 0x02) or none, a first frame that may be
\* corrupted, and possibly a second, valid, frame
StreamInputs ==
    [pre : {<<>>, <<0>>, <<65>>, <<255>>}, p1 : P1Set, bad1 : BOOLEAN,
     two : {FALSE}, p2 : {<<>>}]
    \cup
    [pre : {<<>>, <<0>>, <<65>>, <<255>>}, p1 : P1Set, bad1 : BOOLEAN,
     two : {TRUE}, p2 : P2Set]

Frame1(in) == IF in.bad1 THEN Corrupt(WireFrame(in.p1)) ELSE WireFrame(in.p1)

WireOf(in) == in.pre \o Frame1(in) \o (IF in.two THEN WireFrame(in.p2) ELSE <<>>)

InitStream == /\ CodecIdle
              /\ Fc1Idle
              /\ ErcIdle
              /\ s_in \in StreamInputs
              /\ wire = WireOf(s_in)
              /\ burst \in BOOLEAN
              /\ parse_buffer = <<>>
              /\ yielded = <<>>
              /\ consumed = 0
              /\ gen = "running"
              /\ gpc = "top"
              /\ lastDecode = "none"

\* the lengths raw_read may return: it blocks until a byte is there, then
\* returns what has arrived (everything, when the peer wrote in one burst)
RawReadLengths == IF burst THEN {Len(wire)} \ {0} ELSE 1..Len(wire)

\* parse_buffer.extend(self.raw_read())
ExtendFromWire(n) ==
    /\ parse_buffer' = parse_buffer \o SubSeq(wire, 1, n)
    /\ wire' = From(wire, n)

\* the minimum parse_buffer length below which the loop reads first
FillThreshold == 6

\* if len(parse_buffer) < 6: parse_buffer.extend(self.raw_read())
StreamFill ==
    /\ gen = "running" /\ gpc = "top"
    /\ Len(parse_buffer) < FillThreshold
    /\ \E n \in RawReadLengths : ExtendFromWire(n)
    /\ gpc' = "decode"
    /\ UNCHANGED <<codecVars, fc1Vars, ercVars, s_in, burst, yielded,
                   consumed, gen,
                   lastDecode>>

\* the try block: decode, then yield, slide a byte, ask for more, or die
\* of an exception the generator does not catch
StreamDecode ==
    /\ gen = "running"
    /\ gpc = "decode" \/ (gpc = "top" /\ Len(parse_buffer) >= FillThreshold)
    /\ LET d == packets_decode(parse_buffer)
       IN  /\ lastDecode' = d.kind
           /\ CASE d.kind = "ok" ->
                    /\ parse_buffer' = From(parse_buffer, d.consumed)
                    /\ consumed' = consumed + d.consumed
                    /\ yielded' = Append(yielded,
                                     [data |-> d.data,
                                      at |-> consumed + d.consumed])
                    /\ gpc' = "top"
                    /\ gen' = gen
                [] d.kind = "InvalidPacketHeader" ->
                    /\ parse_buffer' = Tail(parse_buffer)
                    /\ consumed' = consumed + 1
                    /\ gpc' = "top"
                    /\ UNCHANGED <<yielded, gen>>
                [] d.kind = "NeedMoreInput" ->
                    /\ gpc' = "more"
                    /\ UNCHANGED <<parse_buffer, consumed, yielded, gen>>
                [] OTHER ->
                    /\ gen' = d.kind
                    /\ UNCHANGED <<parse_buffer, consumed, yielded, gpc>>
    /\ UNCHANGED <<codecVars, fc1Vars, ercVars, s_in, wire, burst>>

\* except packets.NeedMoreInput: parse_buffer.extend(self.raw_read())
StreamMore ==
    /\ gen = "running" /\ gpc = "more"
    /\ \E n \in RawReadLengths : ExtendFromWire(n)
    /\ gpc' = "top"
    /\ UNCHANGED <<codecVars, fc1Vars, ercVars, s_in, burst, yielded,
                   consumed, gen,
                   lastDecode>>

NextStream == StreamFill \/ StreamDecode \/ StreamMore

SpecStream == InitStream /\ [][NextStream]_vars

\* the generator waits in raw_read and the peer has nothing more to send
Blocked == /\ gen = "running"
           /\ wire = <<>>
           /\ \/ gpc = "more"
              \/ gpc = "top" /\ Len(parse_buffer) < FillThreshold

(* C7: resynchronisation: one byte x that is not 0x02 followed by a valid *)
(* frame f, fed to the frame stream at once, yields f's payload as the    *)
(* first frame after exactly 1 + |f| bytes were consumed.                  *)
C7_Resync ==
    (burst /\ Len(s_in.pre) = 1 /\ ~s_in.bad1) =>
        /\ yielded = <<>> => gen = "running" /\ ~Blocked
        /\ yielded # <<>> =>
               yielded[1] = [data |-> s_in.p1,
                             at |-> 1 + Len(WireFrame(s_in.p1))]

(* C8: the decoder has only three outcomes (a frame, NEED_MORE,           *)
(* INVALID_HEADER); a buffer that begins with 0x02 and holds fewer than   *)
(* 5 bytes gives NEED_MORE; a checksum mismatch gives INVALID_HEADER and  *)
(* the stream goes on to deliver the frames that follow.                  *)
C8_Outcomes ==
    /\ lastDecode \in {"none", "ok", "NeedMoreInput", "InvalidPacketHeader"}
    /\ gen = "running"
    /\ (StartsWith(parse_buffer, <<2>>) /\ Len(parse_buffer) < 5) =>
           packets_decode(parse_buffer).kind = "NeedMoreInput"

---------------------------------------------------------------------------
(* Python string functions used by src/disk/motodisk.py *)

SetMin(S) == CHOOSE x \in S : \A y \in S : x <= y
SetMax(S) == CHOOSE x \in S : \A y \in S : x >= y

\* string.whitespace: \t \n \v \f \r and the space
Whitespace == {9, 10, 11, 12, 13, 32}

\* s.rstrip()
Rstrip(s) ==
    LET keep == {i \in 1..Len(s) : s[i] \notin Whitespace}
    IN  IF keep = {} THEN <<>> ELSE SubSeq(s, 1, SetMax(keep))

\* s.rfind(chr(b)): 0-based index of the last b, or -1
Rfind(s, b) ==
    LET at == {i \in 1..Len(s) : s[i] = b}
    IN  IF at = {} THEN -1 ELSE SetMax(at) - 1

\* os.path.splitext(p): the extension starts at the last dot of the last
\* path component, unless only dots precede it there
SplitExt(p) ==
    LET sepIndex == Rfind(p, 47)
        dotIndex == Rfind(p, 46)
        named == {i \in (sepIndex + 1)..(dotIndex - 1) : p[i + 1] # 46}
    IN  IF dotIndex > sepIndex /\ named # {}
        THEN <<Slice(p, 0, dotIndex), From(p, dotIndex)>>
        ELSE <<p, <<>> >>

\* a splitlines that finds no line break
splitlines_whole(s) == IF s = <<>> THEN <<>> ELSE <<s>>

RECURSIVE SplitLines(_)
\* str.splitlines(): lines end at \n, \r or \r\n; no line after a final end
SplitLines(s) ==
    IF s = <<>> THEN <<>>
    ELSE LET brk == {i \in 1..Len(s) : s[i] \in {10, 13}}
         IN  IF brk = {} THEN <<s>>
             ELSE LET i == SetMin(brk)
                      skip == IF s[i] = 13 /\ i < Len(s) /\ s[i + 1] = 10
                              THEN i + 1 ELSE i
                  IN  <<SubSeq(s, 1, i - 1)>> \o SplitLines(From(s, skip))

\* a join that stops after the first part
join_first(sep, parts) == IF parts = <<>> THEN <<>> ELSE parts[1]

RECURSIVE Join(_, _)
\* sep.join(parts)
Join(sep, parts) ==
    IF parts = <<>> THEN <<>>
    ELSE IF Len(parts) = 1 THEN parts[1]
    ELSE parts[1] \o sep \o Join(sep, Tail(parts))

RECURSIVE Concat(_)
\* "".join(parts)
Concat(parts) == IF parts = <<>> THEN <<>> ELSE Head(parts) \o Concat(Tail(parts))

RECURSIVE Digits(_)
\* str(n) for n >= 0
Digits(n) == IF n < 10 THEN <<48 + n>>
             ELSE Append(Digits(n \div 10), 48 + (n % 10))

\* "{:0w}".format(n): zero-padded on the left to at least w characters
ZeroPad(n, w) == Rep(48, Max(0, w - Len(Digits(n)))) \o Digits(n)

\* "{:w}".format(s): space-padded on the right to at least w characters
PadRight(s, w) == s \o Rep(32, Max(0, w - Len(s)))

\* chunks that yields full chunks only
chunks_whole(iterable, chunksize) ==
    [k \in 1..(Len(iterable) \div chunksize) |->
        Slice(iterable, (k - 1) * chunksize, k * chunksize)]

\* list(chunks(iterable, chunksize))
chunks(iterable, chunksize) ==
    [k \in 1..((Len(iterable) + chunksize - 1) \div chunksize) |->
        Slice(iterable, (k - 1) * chunksize, k * chunksize)]

---------------------------------------------------------------------------
(* src/disk/motodisk.py *)

S_ENQ == <<69, 78, 81>>
S_EOT == <<69, 79, 84>>
S_CAN == <<67, 65, 78>>
S_ACK == <<65, 67, 75>>
S_LST == <<76, 83, 84>>
S_DSZ == <<68, 83, 90>>
S_FRD == <<70, 82, 68>>
S_FWT == <<70, 87, 84>>
S_EOF == <<69, 79, 70>>
S_FSZ == <<70, 83, 90>>
\* ".JBI"
S_JBI == <<46, 74, 66, 73>>
\* "//NAME "
S_NAME == <<47, 47, 78, 65, 77, 69, 32>>
\* "\r\n"
S_CRLF == <<13, 10>>
\* "DSZ00729088"
S_DSZ_REPLY == S_DSZ \o <<48, 48, 55, 50, 57, 48, 56, 56>>

\* namefix(filename, filedata)
namefix(filename, filedata) ==
    LET expected_jobname == SplitExt(filename)[1]
        expected_entry == S_NAME \o expected_jobname
        lines == SplitLines(filedata)
        result == [i \in 1..Len(lines) |->
                     IF StartsWith(lines[i], S_NAME) /\ lines[i] # expected_entry
                     THEN expected_entry ELSE lines[i]]
    IN  Join(S_CRLF, result) \o S_CRLF

\* confirmed_write's default limit
DefaultLimit == 10

\* the chunk size of a file read
ReadChunk == 255

\* os.path.exists that finds nothing
exists_nothing(filename) == FALSE

\* os.path.exists(filename)
Exists(filename) == filename \in DOMAIN files

\* filenames of os.listdir('.') that LST offers when no list was given
ListedJobs ==
    {f \in DOMAIN files :
        /\ Len(f) >= 4 /\ From(f, Len(f) - 4) = S_JBI
        /\ 4 < Len(f) /\ Len(f) < 17}

\* every order in which a set of names can be enumerated
Orders(S) ==
    {o \in [1..Cardinality(S) -> S] : \A i, j \in 1..Cardinality(S) :
                                          o[i] = o[j] => i = j}

\* [f for f in self.filelist if os.path.exists(f)]
RECURSIVE FilterExisting(_)
FilterExisting(l) ==
    IF l = <<>> THEN <<>>
    ELSE (IF Exists(Head(l)) THEN <<Head(l)>> ELSE <<>>)
             \o FilterExisting(Tail(l))

\* "LST{:04}{}".format(len(job_files), "".join(job_files))
lst_reply(names) ==
    S_LST \o ZeroPad(Len(names), 4)
          \o Concat([i \in 1..Len(names) |-> PadRight(names[i], 12)])

\* the messages a file read confirms: FSZ, then one FRD per chunk
frd_messages(filedata) ==
    <<S_FSZ \o ZeroPad(Len(filedata), 8)>>
        \o [k \in 1..Len(chunks(filedata, ReadChunk)) |->
               S_FRD \o chunks(filedata, ReadChunk)[k]]

\* self.write(message): raw_write(packets.encode(message)); encode may raise
\* struct.error, which emulate does not catch
WriteThen(message, nextpc) ==
    IF packets_encode(message).kind = "ok"
    THEN wrote' = <<message>> /\ pc' = nextpc
    ELSE wrote' = <<>> /\ pc' = "struct.error"

\* the bytes the last step handed to raw_write, one encoded frame per write
raw_written ==
    Concat([i \in 1..Len(wrote) |-> packets_encode(wrote[i]).frame])

\* except IOError: log("Resetting on CANcel"); self.write("ACK")
on_IOError == WriteThen(S_ACK, "idle")

\* the first self.write(message) of self.confirmed_write(msgs[1]), the
\* later messages of the transaction waiting in todo
BeginConfirmed(msgs) ==
    /\ cur' = msgs[1]
    /\ todo' = Tail(msgs)
    /\ limit' = DefaultLimit
    /\ cwWrites' = 1
    /\ WriteThen(msgs[1], "cw")

\* confirmed_write with the limit compared off by one
cw_exhausted_late(l) == l < 0

\* if limit < 1: raise RuntimeError
cw_exhausted(l) == l < 1

\* outside confirmed_write its locals do not exist
NoCw == cur' = <<>> /\ todo' = <<>> /\ limit' = 0 /\ cwWrites' = 0

\* what no step of emulate changes, and the observer of the step's origin
Config == /\ UNCHANGED <<filelist, overwrite, codecVars, streamVars, ercVars>>
          /\ was' = pc
          /\ LET written == [i \in 1..Len(wrote') |->
                                [after |-> got', frame |-> wrote'[i]]]
             IN  txn' = IF pc = "idle" THEN written
                        ELSE IF pc = "cw" /\ got' \notin {S_ACK, S_CAN}
                        THEN txn
                        ELSE txn \o written
          /\ taken' = Min(taken + 1, Len(yielded))

\* if packet == 'ENQ': self.write('ACK')
HandleENQ(packet) ==
    /\ pc = "idle" /\ packet = S_ENQ
    /\ got' = packet
    /\ WriteThen(S_ACK, "idle")
    /\ NoCw /\ Config /\ UNCHANGED <<files, outname>>

\* if packet == 'EOT': continue
HandleEOT(packet) ==
    /\ pc = "idle" /\ packet = S_EOT
    /\ got' = packet
    /\ wrote' = <<>>
    /\ NoCw /\ Config /\ UNCHANGED <<files, outname, pc>>

\* if packet == 'CAN': raise IOError, caught at the bottom of the loop
HandleCAN(packet) ==
    /\ pc = "idle" /\ packet = S_CAN
    /\ got' = packet
    /\ on_IOError
    /\ NoCw /\ Config /\ UNCHANGED <<files, outname>>

\* if packet == 'ACK': continue
HandleACK(packet) ==
    /\ pc = "idle" /\ packet = S_ACK
    /\ got' = packet
    /\ wrote' = <<>>
    /\ NoCw /\ Config /\ UNCHANGED <<files, outname, pc>>

\* if packet == 'LST': up to the first read inside confirmed_write
HandleLST(packet) ==
    /\ pc = "idle" /\ packet = S_LST
    /\ got' = packet
    /\ \E job_files \in (IF filelist # <<>>
                         THEN {FilterExisting(filelist)}
                         ELSE Orders(ListedJobs)) :
           BeginConfirmed(<<lst_reply(job_files)>>)
    /\ Config /\ UNCHANGED <<files, outname>>

\* if packet == 'DSZ': up to the first read inside confirmed_write
HandleDSZ(packet) ==
    /\ pc = "idle" /\ packet = S_DSZ
    /\ got' = packet
    /\ BeginConfirmed(<<S_DSZ_REPLY>>)
    /\ Config /\ UNCHANGED <<files, outname>>

\* a list check that lets every name through
listed_always(filename) == FALSE

\* self.filelist and filename not in self.filelist
NotListed(filename) ==
    filelist # <<>> /\ \A i \in 1..Len(filelist) : filelist[i] # filename

\* if packet.startswith('FRD'): up to the first read inside confirmed_write
HandleFRD(packet) ==
    /\ pc = "idle" /\ StartsWith(packet, S_FRD)
    /\ got' = packet
    /\ LET filename == Rstrip(From(packet, 3))
       IN  IF NotListed(filename)
           THEN \* RuntimeError: not caught
                pc' = "RuntimeError" /\ wrote' = <<>> /\ NoCw
           ELSE IF ~Exists(filename)
           THEN \* open() raises IOError
                on_IOError /\ NoCw
           ELSE BeginConfirmed(frd_messages(namefix(filename, files[filename])))
    /\ Config /\ UNCHANGED <<files, outname>>

\* "{0}-{2}{1}".format(list(os.path.splitext(original_filename)) +
\* [rename_counter]): format is handed one argument, the list, so the
\* field {2} has nothing to refer to: IndexError
rename_target(original_filename, rename_counter) ==
    [kind |-> "IndexError", name |-> <<>>]

\* if packet.startswith('FWT'): choose the target, open it, write ACK
HandleFWT(packet) ==
    /\ pc = "idle" /\ StartsWith(packet, S_FWT)
    /\ got' = packet
    /\ LET filename == Rstrip(From(packet, 3))
       IN  IF ~overwrite /\ Exists(filename)
           THEN LET r == rename_target(filename, 1)
                IN  \* the first pass of the while loop raises
                    /\ pc' = r.kind /\ wrote' = <<>>
                    /\ UNCHANGED <<files, outname>>
           ELSE IF filename = <<>>
           THEN \* open("", "w") raises IOError
                on_IOError /\ UNCHANGED <<files, outname>>
           ELSE /\ files' = [f \in DOMAIN files \cup {filename} |->
                               IF f = filename THEN <<>> ELSE files[f]]
                /\ outname' = filename
                /\ WriteThen(S_ACK, "fwt")
    /\ NoCw /\ Config

\* warn("Unhandled packet: ...")
HandleUnhandled(packet) ==
    /\ pc = "idle"
    /\ packet \notin {S_ENQ, S_EOT, S_CAN, S_ACK, S_LST, S_DSZ}
    /\ ~StartsWith(packet, S_FRD) /\ ~StartsWith(packet, S_FWT)
    /\ got' = packet
    /\ wrote' = <<>>
    /\ NoCw /\ Config /\ UNCHANGED <<files, outname, pc>>

\* longest content the peer writes to one file
MaxFileLen == 2

\* the file-write loop: one frame read inside `with open(...)`
FileWriteLoop(packet) ==
    /\ pc = "fwt"
    /\ got' = packet
    /\ IF StartsWith(packet, S_FWT)
       THEN /\ Len(files[outname]) + Len(packet) - 3 <= MaxFileLen
            /\ files' = [files EXCEPT ![outname] = @ \o From(packet, 3)]
            /\ WriteThen(S_ACK, "fwt")
            /\ UNCHANGED outname
       ELSE IF packet = S_EOF
       THEN /\ WriteThen(S_ACK, "idle")
            /\ outname' = <<>>
            /\ UNCHANGED files
       ELSE /\ wrote' = <<>>
            /\ UNCHANGED <<files, pc, outname>>
    /\ NoCw /\ Config

\* confirmed_write that takes any reply for an acknowledgement
cw_trusting(packet) ==
    /\ pc = "cw"
    /\ got' = packet
    /\ IF todo # <<>>
       THEN BeginConfirmed(todo)
       ELSE WriteThen(S_EOF, "idle") /\ NoCw
    /\ Config /\ UNCHANGED <<files, outname>>

\* confirmed_write after its write: one frame read, then ACK / CAN / retry
ConfirmedWriteReply(packet) ==
    /\ pc = "cw"
    /\ got' = packet
    /\ IF packet = S_ACK
       THEN \* return True; the caller confirms its next message or ends
            \* the transaction with self.write("EOF")
            IF todo # <<>>
            THEN BeginConfirmed(todo)
            ELSE WriteThen(S_EOF, "idle") /\ NoCw
       ELSE IF packet = S_CAN
       THEN on_IOError /\ NoCw
       ELSE IF cw_exhausted(limit - 1)
       THEN pc' = "RuntimeError" /\ wrote' = <<>> /\ NoCw
       ELSE /\ limit' = limit - 1
            /\ WriteThen(cur, "cw")
            /\ cwWrites' = cwWrites + 1
            /\ UNCHANGED <<cur, todo>>
    /\ Config /\ UNCHANGED <<files, outname>>

---------------------------------------------------------------------------
(* Specification SpecFC1: SoftFC1.emulate against a peer that may send any *)
(* frame at any time                                                       *)

\* "A.JBI", "L.JBI", "N"
F_A == <<65>> \o S_JBI
F_L == <<76>> \o S_JBI
F_N == <<78>>

\* "//NAME B\nNOP\n": a job whose name line does not match its file name
JobText == S_NAME \o <<66, 10, 78, 79, 80, 10>>

\* a job longer than one chunk
LongText == Rep(78, ReadChunk + 1)

\* directories whose files fit one chunk
ShortDirectories == { <<>>, [f \in {F_A} |-> JobText] }

\* "ABCDEFGHI.JBI": a job name of 13 characters
F_W == <<65, 66, 67, 68, 69, 70, 71, 72, 73>> \o S_JBI

Directories ==
    ShortDirectories
        \cup {[f \in {F_A, F_L} |-> IF f = F_A THEN JobText ELSE LongText],
              [f \in {F_W} |-> JobText]}

\* the number of jobs of a well-filled directory
ManyJobs == 21

\* "A.JBI", "B.JBI", ...: the jobs of a well-filled directory, all of them
\* given on the command line
ManyNames == [i \in 1..ManyJobs |-> <<64 + i>> \o S_JBI]

ManyDirectory == [f \in {ManyNames[i] : i \in 1..ManyJobs} |-> JobText]

\* the command lines and directories emulate starts with
Setups(directories) ==
    [filelist : {<<>>, <<F_A>>}, files : directories]

ManySetups == {[filelist |-> ManyNames, files |-> ManyDirectory]}

\* the frames the peer sends: every verb, alone or with a name or a chunk
S_XYZ == <<88, 89, 90>>

\* the frames the peer sends as commands: every verb, alone or with a name
CommandFrames ==
    {S_ENQ, S_EOT, S_CAN, S_ACK, S_LST, S_DSZ, S_EOF, S_XYZ,
     S_FRD \o F_A, S_FRD \o F_L \o <<32, 32>>, S_FRD \o F_N,
     S_FWT \o F_A, S_FWT \o F_N, S_FWT}

\* the frames the peer sends in reply to a confirmed write
ReplyFrames == {S_ACK, S_CAN, S_EOF, S_XYZ}

\* the frames the peer sends during a file write
DataFrames ==
    {S_FWT \o F_N, S_FWT \o <<65>>, S_FWT \o F_A, S_EOF, S_CAN, S_XYZ}

\* emulate starts: the options of the command line, the directory as found
StartEngine(setups) ==
           /\ \E setup \in setups : /\ filelist = setup.filelist
                                    /\ files = setup.files
           /\ overwrite \in BOOLEAN
           /\ pc = "idle"
           /\ cur = <<>>
           /\ todo = <<>>
           /\ limit = 0
           /\ cwWrites = 0
           /\ outname = <<>>
           /\ was = "idle"
           /\ got = <<>>
           /\ wrote = <<>>
           /\ txn = <<>>
           /\ taken = 0

StartFC1(setups) ==
    CodecIdle /\ StreamIdle /\ ErcIdle /\ StartEngine(setups)

InitFC1 == StartFC1(Setups(Directories) \cup ManySetups)

\* a reply of the peer to a confirmed write reaches the engine
CwReply == \E packet \in ReplyFrames : ConfirmedWriteReply(packet)

NextFC1 ==
    \/ \E packet \in CommandFrames : HandleENQ(packet)
    \/ \E packet \in CommandFrames : HandleEOT(packet)
    \/ \E packet \in CommandFrames : HandleCAN(packet)
    \/ \E packet \in CommandFrames : HandleACK(packet)
    \/ \E packet \in CommandFrames : HandleLST(packet)
    \/ \E packet \in CommandFrames : HandleDSZ(packet)
    \/ \E packet \in CommandFrames : HandleFRD(packet)
    \/ \E packet \in CommandFrames : HandleFWT(packet)
    \/ \E packet \in CommandFrames : HandleUnhandled(packet)
    \/ \E packet \in DataFrames : FileWriteLoop(packet)
    \/ CwReply

SpecFC1 == InitFC1 /\ [][NextFC1]_vars

\* the peer answers every transmission of a confirmed write: the engine is
\* never left waiting in confirmed_write's read
SpecFC1Fair ==
    StartFC1(Setups(ShortDirectories)) /\ [][NextFC1]_vars /\ WF_vars(CwReply)

(* C9: FC1 confirmed-write with the default limit writes the frame at     *)
(* most 10 times; a reply ACK ends it with success (the transaction goes  *)
(* on), a reply CAN raises the recoverable error (ACK, back to idle),     *)
(* the 10th reply that is neither ends it fatally with nothing written,   *)
(* earlier ones write the frame again; and it always terminates when the  *)
(* peer answers every transmission.                                       *)
C9_ConfirmedWrite ==
    /\ [](pc = "cw" => cwWrites \in 1..DefaultLimit /\ wrote = <<cur>>)
    /\ []((was = "cw" /\ got = S_ACK) =>
             \/ pc = "idle" /\ wrote = <<S_EOF>>
             \/ pc = "cw" /\ cwWrites = 1)
    /\ []((was = "cw" /\ got = S_CAN) => pc = "idle" /\ wrote = <<S_ACK>>)
    /\ [][(pc = "cw" /\ got' \notin {S_ACK, S_CAN}) =>
             IF cwWrites = DefaultLimit
             THEN pc' = "RuntimeError" /\ wrote' = <<>>
             ELSE /\ pc' = "cw" /\ wrote' = <<cur>>
                  /\ cur' = cur /\ cwWrites' = cwWrites + 1]_vars
    /\ [][pc = "RuntimeError" => UNCHANGED vars]_vars
    /\ (pc = "cw") ~> (pc # "cw")

\* the engine has written the same frame for the tenth time
C9_TenthWrite == pc = "cw" /\ cwWrites = DefaultLimit /\ got = S_XYZ

(* C10: whenever the engine receives a CAN frame, in whatever state it   *)
(* is (Idle, inside a confirmed-write, inside the file-write loop), the    *)
(* next frame it writes is ACK, it writes nothing more of the interrupted *)
(* transaction, and it is then in Idle.                                    *)
C10_CancelAnywhere ==
    got = S_CAN => wrote = <<S_ACK>> /\ pc = "idle"

(* What holds of the recovery: a CAN frame received in Idle or while a   *)
(* confirmed-write of LST, DSZ or FRD waits for its acknowledgement is     *)
(* answered with ACK, nothing more of the interrupted transaction is      *)
(* written and the engine is in Idle; the file-write loop has no branch   *)
(* for CAN: nothing is written and the engine stays in the loop.          *)
C10_CancelRecovery ==
    /\ (got = S_CAN /\ was \in {"idle", "cw"}) =>
           /\ wrote = <<S_ACK>>
           /\ pc = "idle"
           /\ cur = <<>> /\ todo = <<>>
    /\ (got = S_CAN /\ was = "fwt") => wrote = <<>> /\ pc = "fwt"

\* a CAN interrupted a confirmed-write and the engine is back in Idle
C10_CancelledTransfer ==
    got = S_CAN /\ was = "cw" /\ pc = "idle" /\ wrote = <<S_ACK>>

---------------------------------------------------------------------------
(* SoftFC1.emulate: the transactions, as the peer sees them               *)

RECURSIVE DecimalValue(_)
\* the number a string of decimal digits writes
DecimalValue(d) ==
    IF d = <<>> THEN 0
    ELSE 10 * DecimalValue(SubSeq(d, 1, Len(d) - 1)) + (d[Len(d)] - 48)

IsDecimal(d) == \A i \in 1..Len(d) : d[i] \in 48..57

\* the frames of the transaction, in the order written
Frames == [i \in 1..Len(txn) |-> txn[i].frame]

\* the transaction began with the command `verb`, ran through confirmed
\* writes, and has just ended with EOF
Completed(verb) ==
    /\ pc = "idle" /\ was = "cw" /\ wrote = <<S_EOF>>
    /\ txn # <<>> /\ StartsWith(txn[1].after, verb)

\* the file an FRD or FWT command names
Requested(command) == Rstrip(From(command, 3))

(* C11: a file read that completes writes FSZ<len>, FRD<chunk_1> ..       *)
(* FRD<chunk_k>, EOF in this order; each frame after the FSZ is written   *)
(* only after the previous one was acknowledged with ACK; every chunk has *)
(* 1 to 255 bytes; the chunks concatenated are the name-fixed content of  *)
(* the file; <len> is that content's length as 8 decimal digits.          *)
C11_FileRead ==
    Completed(S_FRD) =>
        LET n == Len(txn)
            name == Requested(txn[1].after)
            content == namefix(name, files[name])
            payload == [i \in 1..(n - 2) |-> From(txn[i + 1].frame, 3)]
        IN  /\ n >= 2
            /\ StartsWith(txn[1].frame, S_FSZ)
            /\ Len(txn[1].frame) = 3 + 8
            /\ IsDecimal(From(txn[1].frame, 3))
            /\ DecimalValue(From(txn[1].frame, 3)) = Len(content)
            /\ \A i \in 2..(n - 1) :
                   /\ StartsWith(txn[i].frame, S_FRD)
                   /\ Len(txn[i].frame) - 3 \in 1..255
            /\ txn[n].frame = S_EOF
            /\ \A i \in 2..n : txn[i].after = S_ACK
            /\ Concat(payload) = content

\* a file of two chunks has been read to its end
C11_TwoChunksRead == Completed(S_FRD) /\ Len(txn) = 4

\* the chunk payloads of the file write, in the order they arrived
ChunksArrived ==
    LET data == SelectSeq(Tail(txn), LAMBDA e : StartsWith(e.after, S_FWT))
    IN  Concat([i \in 1..Len(data) |-> From(data[i].after, 3)])

\* the file-write loop: what it answers to the frames it reads
FileWriteLoopAnswers ==
    /\ (was = "fwt" /\ StartsWith(got, S_FWT)) =>
           wrote = <<S_ACK>> /\ pc = "fwt"
    /\ (was = "fwt" /\ got = S_EOF) =>
           /\ wrote = <<S_ACK>> /\ pc = "idle"
           /\ Requested(txn[1].after) \in DOMAIN files
           /\ files[Requested(txn[1].after)] = ChunksArrived
    /\ (was = "fwt" /\ ~StartsWith(got, S_FWT) /\ got # S_EOF) =>
           wrote = <<>> /\ pc = "fwt"

(* C12: in a file write the engine writes exactly one ACK after the       *)
(* FWT<filename> frame, one after each FWT<chunk> frame and one after the *)
(* EOF frame, and nothing for any other frame received in between; when   *)
(* EOF has been acknowledged the engine is in Idle and the file holds the *)
(* chunk payloads concatenated in the order they arrived.                 *)
C12_FileWrite ==
    /\ (was = "idle" /\ StartsWith(got, S_FWT)) => wrote = <<S_ACK>>
    /\ FileWriteLoopAnswers

(* What holds of the file write: once the target is open, every           *)
(* FWT<chunk> and the EOF are answered with one ACK each, another frame   *)
(* with nothing, no frame but FWT<chunk> changes a file, and after the    *)
(* EOF the file holds the chunks in the order they arrived.               *)
C12_FileWriteLoop ==
    /\ []FileWriteLoopAnswers
    /\ []((was = "idle" /\ pc = "fwt") => wrote = <<S_ACK>>)
    /\ [][(pc = "fwt" /\ ~StartsWith(got', S_FWT)) => files' = files]_vars

\* a file of two chunks has been written and closed
C12_TwoChunksWritten ==
    was = "fwt" /\ got = S_EOF /\ ChunksArrived = <<78, 65>>

\* <stem>-N<ext> of a file name
Numbered(name, N) ==
    SplitExt(name)[1] \o <<45>> \o Digits(N) \o SplitExt(name)[2]

\* <stem>-N<ext> for the smallest N >= 1 that names no file
FirstFree(name) ==
    Numbered(name,
             SetMin({N \in 1..(Cardinality(DOMAIN files) + 1) :
                        Numbered(name, N) \notin DOMAIN files}))

(* C13: when overwrite is denied and the file named in an FWT command     *)
(* exists, the engine stores the incoming data in <stem>-N<ext> for the   *)
(* smallest N >= 1 for which that name does not exist, answers with ACK   *)
(* and carries on with the file write.                                    *)
C13_RenamedTarget ==
    [][(/\ pc = "idle" /\ StartsWith(got', S_FWT)
        /\ ~overwrite /\ Requested(got') \in DOMAIN files)
       => /\ pc' = "fwt" /\ wrote' = <<S_ACK>>
          /\ outname' = FirstFree(Requested(got'))
          /\ outname' \in DOMAIN files'
          /\ \A f \in DOMAIN files : files'[f] = files[f]]_vars

(* C14: with overwrite denied no transaction changes or truncates a file  *)
(* that existed before it began: the target chosen for an FWT is never an *)
(* existing path, and when the requested name does not exist the target   *)
(* is exactly the requested name.                                         *)
C14_NoClobber ==
    [][~overwrite =>
         /\ \A f \in DOMAIN files :
                /\ f \in DOMAIN files'
                /\ files'[f] = files[f] \/ (pc = "fwt" /\ f = outname)
         /\ (pc = "idle" /\ pc' = "fwt") => outname' \notin DOMAIN files
         /\ (/\ pc = "idle" /\ StartsWith(got', S_FWT)
             /\ Requested(got') # <<>>
             /\ Requested(got') \notin DOMAIN files)
            => /\ pc' = "fwt"
               /\ outname' = Requested(got')
               /\ outname' \in DOMAIN files']_vars

\* overwrite denied: a new file was written next to an existing one
C14_WrittenBeside ==
    /\ ~overwrite /\ was = "fwt" /\ got = S_EOF /\ ChunksArrived # <<>>
    /\ F_A \in DOMAIN files /\ files[F_A] = JobText

\* the names on the whitelist
Whitelist == {filelist[i] : i \in 1..Len(filelist)}

(* C15: with a whitelist configured the engine never writes an FSZ or FRD *)
(* frame for a file name that is not on the whitelist: an FRD naming such *)
(* a file ends the session fatally (it is not recovered like a CAN) and   *)
(* no frame is written in response.                                       *)
C15_Whitelist ==
    /\ []((/\ filelist # <<>> /\ was = "idle" /\ StartsWith(got, S_FRD)
           /\ Requested(got) \notin Whitelist)
          => pc = "RuntimeError" /\ wrote = <<>> /\ txn = <<>>)
    /\ [][pc = "RuntimeError" => UNCHANGED vars]_vars
    /\ []((/\ filelist # <<>>
           /\ \E i \in 1..Len(txn) :
                  StartsWith(txn[i].frame, S_FSZ)
                      \/ StartsWith(txn[i].frame, S_FRD))
          => /\ StartsWith(txn[1].after, S_FRD)
             /\ Requested(txn[1].after) \in Whitelist)

\* a file that exists but is not on the whitelist was asked for
C15_RefusedRead ==
    /\ filelist # <<>> /\ was = "idle" /\ pc = "RuntimeError"
    /\ StartsWith(got, S_FRD) /\ Requested(got) \in DOMAIN files

\* the names LST may offer: the whitelisted files that exist, or else the
\* *.JBI files whose name has more than 4 and fewer than 17 characters
Offered ==
    IF filelist # <<>> THEN Whitelist \cap DOMAIN files
    ELSE {f \in DOMAIN files : /\ 4 < Len(f) /\ Len(f) < 17
                               /\ SubSeq(f, Len(f) - 3, Len(f)) = S_JBI}

\* the reply is LST, a count of 4 digits, and that many items of 12
\* characters, each an offered name left-aligned and padded with spaces
IsListing(m) ==
    /\ Len(m) >= 7 /\ StartsWith(m, S_LST)
    /\ IsDecimal(SubSeq(m, 4, 7))
    /\ LET n == DecimalValue(SubSeq(m, 4, 7))
       IN  /\ Len(m) = 7 + 12 * n
           /\ \A k \in 1..n :
                  \E f \in Offered :
                      /\ Len(f) <= 12
                      /\ SubSeq(m, 8 + 12 * (k - 1), 7 + 12 * k)
                             = f \o [j \in 1..(12 - Len(f)) |-> 32]

(* C16: the reply to LST is LST, a 4-digit decimal count n and exactly n  *)
(* items of exactly 12 characters each (a name left-aligned, padded with  *)
(* spaces), 7 + 12 n bytes long; the items are the whitelisted names that *)
(* exist when a whitelist is configured, otherwise the names of the *.JBI *)
(* files with 4 < L < 17; the reply is sent by a confirmed write and      *)
(* followed by EOF.                                                       *)
C16_Listing ==
    /\ (was = "idle" /\ got = S_LST) =>
           /\ pc = "cw" /\ Len(wrote) = 1 /\ wrote[1] = cur /\ todo = <<>>
           /\ IsListing(wrote[1])
    /\ Completed(S_LST) =>
           /\ Len(txn) = 2
           /\ txn[2] = [after |-> S_ACK, frame |-> S_EOF]

(* What holds of the listing: when no offered name has more than 12       *)
(* characters the reply is as C16 says.                                   *)
C16_ShortNamesListing ==
    (\A f \in Offered : Len(f) <= 12) => C16_Listing

(* C17: every frame the engine writes, in every reachable state and for   *)
(* every transaction (ACK, EOF, LST reply, DSZ reply, FSZ, FRD chunk),    *)
(* has a payload of at most 258 bytes (a verb and 255 data bytes) and a   *)
(* LEN field equal to the payload length.                                 *)
C17_FrameSize ==
    \A i \in 1..Len(wrote) :
        /\ Len(wrote[i]) <= 3 + ReadChunk
        /\ packets_encode(wrote[i]).kind = "ok"
        /\ LET frame == packets_encode(wrote[i]).frame
           IN  frame[2] + 256 * frame[3] = Len(wrote[i])

(* What holds of the frame sizes: the LEN field always equals the payload *)
(* length, and every frame but the reply to LST keeps to 258 bytes.       *)
C17_FrameSizeButListing ==
    \A i \in 1..Len(wrote) :
        /\ StartsWith(wrote[i], S_LST) \/ Len(wrote[i]) <= 3 + ReadChunk
        /\ packets_encode(wrote[i]).kind = "ok"
        /\ LET frame == packets_encode(wrote[i]).frame
           IN  frame[2] + 256 * frame[3] = Len(wrote[i])

\* "DSZ00729088"
DiskSize == <<68, 83, 90, 48, 48, 55, 50, 57, 48, 56, 56>>

(* C18: on a DSZ command the engine writes the frame DSZ00729088, writes  *)
(* the EOF frame only after it has read an ACK frame for it, writes EOF   *)
(* exactly once, and is then back in Idle.                                *)
C18_DiskSize ==
    /\ []((was = "idle" /\ got = S_DSZ) =>
              /\ pc = "cw" /\ wrote = <<DiskSize>>
              /\ txn = <<[after |-> S_DSZ, frame |-> DiskSize]>>)
    /\ [][(/\ pc = "cw" /\ cur = DiskSize
           /\ S_EOF \in {wrote'[i] : i \in 1..Len(wrote')})
          => got' = S_ACK /\ wrote' = <<S_EOF>> /\ pc' = "idle"]_vars
    /\ []((txn # <<>> /\ txn[1].after = S_DSZ) =>
              /\ \A i \in 2..Len(txn) :
                     /\ txn[i].frame = S_EOF => i = 2 /\ txn[i].after = S_ACK
                     /\ txn[i].frame # DiskSize
              /\ Len(txn) <= 2
              /\ Len(txn) = 2 => pc = "idle")
    /\ [](Completed(S_DSZ) =>
              txn = <<[after |-> S_DSZ, frame |-> DiskSize],
                      [after |-> S_ACK, frame |-> S_EOF]>>)

\* the disk size was asked for, acknowledged, and the EOF written
C18_DiskSizeTold == Completed(S_DSZ)

---------------------------------------------------------------------------
(* Specification SpecWire: SoftFC1.emulate fed by its own                  *)
(* input_packet_streamer, over the bytes a peer puts on the serial line   *)

\* the eight bytes given for the frame with payload ENQ, and the eight
\* bytes the encoding of ENQ has
QuotedEnq == <<2, 3, 0, 69, 78, 81, 205, 254>>
FramedEnq == <<2, 3, 0, 69, 78, 81, 25, 255>>

\* the eight bytes given for the frame with payload ACK, and the eight
\* bytes the encoding of ACK has
QuotedAck == <<2, 3, 0, 65, 67, 75, 214, 254>>
FramedAck == <<2, 3, 0, 65, 67, 75, 46, 255>>

\* the bytes of a run of frames
Wire(payloads) == Concat([i \in 1..Len(payloads) |-> WireFrame(payloads[i])])

\* what the peer sends: one frame, or a session of several
WireInputs ==
    {QuotedEnq, FramedEnq,
     Wire(<<S_ENQ, S_EOT, S_ACK, S_XYZ, S_CAN, S_DSZ, S_ACK>>),
     Wire(<<S_LST, S_ACK, S_FRD \o F_A, S_ACK, S_ACK>>),
     Wire(<<S_FWT \o F_N, S_FWT \o <<65>>, S_EOF>>)}

InitWire == /\ CodecIdle
            /\ ErcIdle
            /\ StartEngine(Setups({[f \in {F_A} |-> JobText]}))
            /\ s_in \in WireInputs
            /\ wire = s_in
            /\ burst \in BOOLEAN
            /\ parse_buffer = <<>>
            /\ yielded = <<>>
            /\ consumed = 0
            /\ gen = "running"
            /\ gpc = "top"
            /\ lastDecode = "none"

\* emulate is inside next(self.input_packets): the generator runs
InNext == taken = Len(yielded) /\ pc \in {"idle", "cw", "fwt"}

\* the frame the generator has yielded to the engine
Incoming == IF taken < Len(yielded) THEN {yielded[taken + 1].data} ELSE {}

\* next(self.input_packets) raises what ended the generator; emulate
\* catches IOError only
NextRaises ==
    /\ InNext /\ gen # "running"
    /\ pc' = gen
    /\ got' = <<>> /\ wrote' = <<>>
    /\ NoCw /\ Config /\ UNCHANGED <<files, outname>>

NextWire ==
    \/ InNext /\ StreamFill
    \/ InNext /\ StreamDecode
    \/ InNext /\ StreamMore
    \/ NextRaises
    \/ \E packet \in Incoming : HandleENQ(packet)
    \/ \E packet \in Incoming : HandleEOT(packet)
    \/ \E packet \in Incoming : HandleCAN(packet)
    \/ \E packet \in Incoming : HandleACK(packet)
    \/ \E packet \in Incoming : HandleLST(packet)
    \/ \E packet \in Incoming : HandleDSZ(packet)
    \/ \E packet \in Incoming : HandleFRD(packet)
    \/ \E packet \in Incoming : HandleFWT(packet)
    \/ \E packet \in Incoming : HandleUnhandled(packet)
    \/ \E packet \in Incoming : FileWriteLoop(packet)
    \/ \E packet \in Incoming : ConfirmedWriteReply(packet)

SpecWire == InitWire /\ [][NextWire]_vars

\* the peer's bytes are used up and the engine has answered what it was
\* given: it waits for more, or it has ended
Settled ==
    /\ wire = <<>>
    /\ taken = Len(yielded)
    /\ pc \in {"idle", "cw", "fwt"} => Blocked

(* C19: when the peer writes the eight bytes 02 03 00 45 4E 51 CD FE the  *)
(* idle engine decodes them as an ENQ frame and writes exactly the eight  *)
(* bytes 02 03 00 41 43 4B D6 FE, and nothing else.                       *)
C19_EnqByBytes ==
    (s_in = QuotedEnq /\ Settled) =>
        /\ Len(yielded) = 1 /\ yielded[1].data = S_ENQ
        /\ got = S_ENQ /\ pc = "idle"
        /\ raw_written = QuotedAck

(* C19 as the code has it: when the peer writes the eight bytes           *)
(* 02 03 00 45 4E 51 19 FF the idle engine decodes them as an ENQ frame   *)
(* and writes exactly the eight bytes 02 03 00 41 43 4B 2E FF, and        *)
(* nothing else.                                                          *)
C19_EnqByFramedBytes ==
    (s_in = FramedEnq /\ Settled) =>
        /\ Len(yielded) = 1 /\ yielded[1].data = S_ENQ
        /\ got = S_ENQ /\ pc = "idle"
        /\ raw_written = FramedAck

\* the ENQ frame has been read byte by byte and answered
C19_EnqAnswered ==
    s_in = FramedEnq /\ ~burst /\ Settled /\ got = S_ENQ

-----------------------------------------------------------------------------
(* SoftFC1.emulate: a file that cannot be opened *)

\* the last frame was an FRD or FWT read in Idle whose file cannot be
\* opened: an FRD for a file that does not exist, an FWT without a name
CannotOpen ==
    /\ was = "idle"
    /\ \/ StartsWith(got, S_FRD) /\ ~Exists(Requested(got))
       \/ StartsWith(got, S_FWT) /\ Requested(got) = <<>>

(* C35: the engine takes the CAN recovery step (write ACK, resume the     *)
(* main loop) only after it received a CAN frame: an FRD or FWT whose     *)
(* file cannot be opened is not answered with an ACK frame.               *)
C35_AckOnlyAfterCan == CannotOpen => wrote # <<S_ACK>>

(* What holds of C35 instead: an FRD for a missing file that the          *)
(* whitelist allows, and an FWT without a name, are answered with ACK,    *)
(* and the engine is in Idle.                                             *)
C35_OpenFailureAcked ==
    CannotOpen /\ ~(StartsWith(got, S_FRD) /\ NotListed(Requested(got)))
    => wrote = <<S_ACK>> /\ pc = "idle"

---------------------------------------------------------------------------
(* src/remote/erc.py: constants and tables *)

SOH == <<1>>
STX == <<2>>
ETX == <<3>>
EOT == <<4>>
ENQ == <<5>>
DLE == <<16>>
NAK == <<21>>
ETB == <<23>>
ACK0 == DLE \o <<48>>
ACK1 == DLE \o <<49>>
WACK == DLE \o <<107>>
RVI == DLE \o <<124>>
TTD == STX \o ENQ

\* the keys of CONTROL_CHARS
CONTROL_CHARS ==
    {SOH, STX, ETX, EOT, ENQ, DLE, NAK, ETB, ACK0, ACK1, WACK, RVI, TTD}

\* "\r"
S_CR == <<13>>
\* ".JBR", "*.JBI", "*.JBR"
S_JBR == <<46, 74, 66, 82>>
S_ANY_JBI == <<42>> \o S_JBI
S_ANY_JBR == <<42>> \o S_JBR
\* "put", "get"
S_PUT == <<112, 117, 116>>
S_GET == <<103, 101, 116>>
\* "UNKNOWN.DAT"
S_UNKNOWN_DAT == <<85, 78, 75, 78, 79, 87, 78, 46, 68, 65, 84>>
\* "0000", "4040"
S_0000 == <<48, 48, 48, 48>>
S_4040 == <<52, 48, 52, 48>>

\* the transaction code "AA,BBB"
Code(a, b) == ZeroPad(a, 2) \o <<44>> \o ZeroPad(b, 3)

\* TRANSACTIONS: transaction code -> description
TRANSACTIONS ==
    \* '01,000': 'command from remote computer'
    (<<48, 49, 44, 48, 48, 48>> :>
        <<99, 111, 109, 109, 97, 110, 100, 32, 102, 114, 111, 109, 32, 114,
          101, 109, 111, 116, 101, 32, 99, 111, 109, 112, 117, 116, 101,
          114>>) @@
    \* '02,001': 'put *.JBI'
    (<<48, 50, 44, 48, 48, 49>> :>
        <<112, 117, 116, 32, 42, 46, 74, 66, 73>>) @@
    \* '02,002': 'put *.JBR'
    (<<48, 50, 44, 48, 48, 50>> :>
        <<112, 117, 116, 32, 42, 46, 74, 66, 82>>) @@
    \* '02,011': 'put WEAV.DAT'
    (<<48, 50, 44, 48, 49, 49>> :>
        <<112, 117, 116, 32, 87, 69, 65, 86, 46, 68, 65, 84>>) @@
    \* '02,012': 'put TOOL.DAT'
    (<<48, 50, 44, 48, 49, 50>> :>
        <<112, 117, 116, 32, 84, 79, 79, 76, 46, 68, 65, 84>>) @@
    \* '02,013': 'put UFRAME.DAT'
    (<<48, 50, 44, 48, 49, 51>> :>
        <<112, 117, 116, 32, 85, 70, 82, 65, 77, 69, 46, 68, 65, 84>>) @@
    \* '02,014': 'put ABSWELD.DAT'
    (<<48, 50, 44, 48, 49, 52>> :>
        <<112, 117, 116, 32, 65, 66, 83, 87, 69, 76, 68, 46, 68, 65, 84>>) @@
    \* '02,015': 'put CV.DAT'
    (<<48, 50, 44, 48, 49, 53>> :>
        <<112, 117, 116, 32, 67, 86, 46, 68, 65, 84>>) @@
    \* '02,016': 'put SENSOR.DAT'
    (<<48, 50, 44, 48, 49, 54>> :>
        <<112, 117, 116, 32, 83, 69, 78, 83, 79, 82, 46, 68, 65, 84>>) @@
    \* '02,017': 'put COMARC2.DAT'
    (<<48, 50, 44, 48, 49, 55>> :>
        <<112, 117, 116, 32, 67, 79, 77, 65, 82, 67, 50, 46, 68, 65, 84>>) @@
    \* '02,018': 'put PC1PC2.DAT'
    (<<48, 50, 44, 48, 49, 56>> :>
        <<112, 117, 116, 32, 80, 67, 49, 80, 67, 50, 46, 68, 65, 84>>) @@
    \* '02,020': 'put POSOUT.DAT'
    (<<48, 50, 44, 48, 50, 48>> :>
        <<112, 117, 116, 32, 80, 79, 83, 79, 85, 84, 46, 68, 65, 84>>) @@
    \* '02,022': 'put RECIPRO.DAT'
    (<<48, 50, 44, 48, 50, 50>> :>
        <<112, 117, 116, 32, 82, 69, 67, 73, 80, 82, 79, 46, 68, 65, 84>>) @@
    \* '02,023': 'put PALACT.DAT'
    (<<48, 50, 44, 48, 50, 51>> :>
        <<112, 117, 116, 32, 80, 65, 76, 65, 67, 84, 46, 68, 65, 84>>) @@
    \* '02,030': 'put SYSTEM.DAT'
    (<<48, 50, 44, 48, 51, 48>> :>
        <<112, 117, 116, 32, 83, 89, 83, 84, 69, 77, 46, 68, 65, 84>>) @@
    \* '02,051': 'get *.JBI'
    (<<48, 50, 44, 48, 53, 49>> :>
        <<103, 101, 116, 32, 42, 46, 74, 66, 73>>) @@
    \* '02,052': 'get *.JBR'
    (<<48, 50, 44, 48, 53, 50>> :>
        <<103, 101, 116, 32, 42, 46, 74, 66, 82>>) @@
    \* '02,061': 'get WEAV.DAT'
    (<<48, 50, 44, 48, 54, 49>> :>
        <<103, 101, 116, 32, 87, 69, 65, 86, 46, 68, 65, 84>>) @@
    \* '02,062': 'get TOOL.DAT'
    (<<48, 50, 44, 48, 54, 50>> :>
        <<103, 101, 116, 32, 84, 79, 79, 76, 46, 68, 65, 84>>) @@
    \* '02,063': 'get UFRAME.DAT'
    (<<48, 50, 44, 48, 54, 51>> :>
        <<103, 101, 116, 32, 85, 70, 82, 65, 77, 69, 46, 68, 65, 84>>) @@
    \* '02,064': 'get ABSWELD.DAT'
    (<<48, 50, 44, 48, 54, 52>> :>
        <<103, 101, 116, 32, 65, 66, 83, 87, 69, 76, 68, 46, 68, 65, 84>>) @@
    \* '02,065': 'get CV.DAT'
    (<<48, 50, 44, 48, 54, 53>> :>
        <<103, 101, 116, 32, 67, 86, 46, 68, 65, 84>>) @@
    \* '02,066': 'get SENSOR.DAT'
    (<<48, 50, 44, 48, 54, 54>> :>
        <<103, 101, 116, 32, 83, 69, 78, 83, 79, 82, 46, 68, 65, 84>>) @@
    \* '02,067': 'get COMARC2.DAT'
    (<<48, 50, 44, 48, 54, 55>> :>
        <<103, 101, 116, 32, 67, 79, 77, 65, 82, 67, 50, 46, 68, 65, 84>>) @@
    \* '02,068': 'get PC1PC2.DAT'
    (<<48, 50, 44, 48, 54, 56>> :>
        <<103, 101, 116, 32, 80, 67, 49, 80, 67, 50, 46, 68, 65, 84>>) @@
    \* '02,070': 'get POSOUT.DAT'
    (<<48, 50, 44, 48, 55, 48>> :>
        <<103, 101, 116, 32, 80, 79, 83, 79, 85, 84, 46, 68, 65, 84>>) @@
    \* '02,072': 'get RECIPRO.DAT'
    (<<48, 50, 44, 48, 55, 50>> :>
        <<103, 101, 116, 32, 82, 69, 67, 73, 80, 82, 79, 46, 68, 65, 84>>) @@
    \* '02,073': 'get PALACT.DAT'
    (<<48, 50, 44, 48, 55, 51>> :>
        <<103, 101, 116, 32, 80, 65, 76, 65, 67, 84, 46, 68, 65, 84>>) @@
    \* '02,080': 'get SYSTEM.DAT'
    (<<48, 50, 44, 48, 56, 48>> :>
        <<103, 101, 116, 32, 83, 89, 83, 84, 69, 77, 46, 68, 65, 84>>) @@
    \* '03,001': 'put byte'
    (<<48, 51, 44, 48, 48, 49>> :>
        <<112, 117, 116, 32, 98, 121, 116, 101>>) @@
    \* '03,002': 'put integer'
    (<<48, 51, 44, 48, 48, 50>> :>
        <<112, 117, 116, 32, 105, 110, 116, 101, 103, 101, 114>>) @@
    \* '03,003': 'put double'
    (<<48, 51, 44, 48, 48, 51>> :>
        <<112, 117, 116, 32, 100, 111, 117, 98, 108, 101>>) @@
    \* '03,004': 'put real'
    (<<48, 51, 44, 48, 48, 52>> :>
        <<112, 117, 116, 32, 114, 101, 97, 108>>) @@
    \* '03,005': 'put position (pulse data)'
    (<<48, 51, 44, 48, 48, 53>> :>
        <<112, 117, 116, 32, 112, 111, 115, 105, 116, 105, 111, 110, 32, 40,
          112, 117, 108, 115, 101, 32, 100, 97, 116, 97, 41>>) @@
    \* '03,006': 'put position (rectangular data)'
    (<<48, 51, 44, 48, 48, 54>> :>
        <<112, 117, 116, 32, 112, 111, 115, 105, 116, 105, 111, 110, 32, 40,
          114, 101, 99, 116, 97, 110, 103, 117, 108, 97, 114, 32, 100, 97,
          116, 97, 41>>) @@
    \* '03,007': 'put external axis (pulse data)'
    (<<48, 51, 44, 48, 48, 55>> :>
        <<112, 117, 116, 32, 101, 120, 116, 101, 114, 110, 97, 108, 32, 97,
          120, 105, 115, 32, 40, 112, 117, 108, 115, 101, 32, 100, 97, 116,
          97, 41>>) @@
    \* '03,008': 'put external axis (rectangular data)'
    (<<48, 51, 44, 48, 48, 56>> :>
        <<112, 117, 116, 32, 101, 120, 116, 101, 114, 110, 97, 108, 32, 97,
          120, 105, 115, 32, 40, 114, 101, 99, 116, 97, 110, 103, 117, 108,
          97, 114, 32, 100, 97, 116, 97, 41>>) @@
    \* '03,051': 'get byte'
    (<<48, 51, 44, 48, 53, 49>> :>
        <<103, 101, 116, 32, 98, 121, 116, 101>>) @@
    \* '03,052': 'get integer'
    (<<48, 51, 44, 48, 53, 50>> :>
        <<103, 101, 116, 32, 105, 110, 116, 101, 103, 101, 114>>) @@
    \* '03,053': 'get double'
    (<<48, 51, 44, 48, 53, 51>> :>
        <<103, 101, 116, 32, 100, 111, 117, 98, 108, 101>>) @@
    \* '03,054': 'get real'
    (<<48, 51, 44, 48, 53, 52>> :>
        <<103, 101, 116, 32, 114, 101, 97, 108>>) @@
    \* '03,055': 'get position (pulse data)'
    (<<48, 51, 44, 48, 53, 53>> :>
        <<103, 101, 116, 32, 112, 111, 115, 105, 116, 105, 111, 110, 32, 40,
          112, 117, 108, 115, 101, 32, 100, 97, 116, 97, 41>>) @@
    \* '03,056': 'get position (rectangular data)'
    (<<48, 51, 44, 48, 53, 54>> :>
        <<103, 101, 116, 32, 112, 111, 115, 105, 116, 105, 111, 110, 32, 40,
          114, 101, 99, 116, 97, 110, 103, 117, 108, 97, 114, 32, 100, 97,
          116, 97, 41>>) @@
    \* '03,057': 'get external axis (pulse data)'
    (<<48, 51, 44, 48, 53, 55>> :>
        <<103, 101, 116, 32, 101, 120, 116, 101, 114, 110, 97, 108, 32, 97,
          120, 105, 115, 32, 40, 112, 117, 108, 115, 101, 32, 100, 97, 116,
          97, 41>>) @@
    \* '03,058': 'get external axis (rectangular data)'
    (<<48, 51, 44, 48, 53, 56>> :>
        <<103, 101, 116, 32, 101, 120, 116, 101, 114, 110, 97, 108, 32, 97,
          120, 105, 115, 32, 40, 114, 101, 99, 116, 97, 110, 103, 117, 108,
          97, 114, 32, 100, 97, 116, 97, 41>>) @@
    \* '90,000': '0000 or a 4 digit error code, response to a command'
    (<<57, 48, 44, 48, 48, 48>> :>
        <<48, 48, 48, 48, 32, 111, 114, 32, 97, 32, 52, 32, 100, 105, 103,
          105, 116, 32, 101, 114, 114, 111, 114, 32, 99, 111, 100, 101, 44,
          32, 114, 101, 115, 112, 111, 110, 115, 101, 32, 116, 111, 32, 97,
          32, 99, 111, 109, 109, 97, 110, 100>>) @@
    \* '90,001': 'data response, variable number of digits/data sent as csv'
    (<<57, 48, 44, 48, 48, 49>> :>
        <<100, 97, 116, 97, 32, 114, 101, 115, 112, 111, 110, 115, 101, 44,
          32, 118, 97, 114, 105, 97, 98, 108, 101, 32, 110, 117, 109, 98,
          101, 114, 32, 111, 102, 32, 100, 105, 103, 105, 116, 115, 47, 100,
          97, 116, 97, 32, 115, 101, 110, 116, 32, 97, 115, 32, 99, 115,
          118>>)

\* self.handlers of ERC.__init__: transaction code -> method
handlers ==
    [c \in {Code(2, n) : n \in {1, 2, 11, 12, 13, 14, 15, 16, 17, 18, 20, 22,
                                23, 30}} |-> "handle_incoming_file"]
    @@ [c \in {Code(2, n) : n \in {51, 52, 61, 62, 63, 64, 65, 66, 67, 68,
                                   70, 72, 73, 80}} |-> "handle_file_request"]

---------------------------------------------------------------------------
(* src/remote/erc.py: functions *)

\* s.endswith(p)
EndsWith(s, p) ==
    Len(s) >= Len(p) /\ SubSeq(s, Len(s) - Len(p) + 1, Len(s)) = p

\* s.strip()
Strip(s) ==
    LET keep == {i \in 1..Len(s) : s[i] \notin Whitespace}
    IN  IF keep = {} THEN <<>> ELSE SubSeq(s, SetMin(keep), SetMax(keep))

\* s.partition(chr(b)): the part before the first b, the b, the part after
Partition(s, b) ==
    LET at == {i \in 1..Len(s) : s[i] = b}
    IN  IF at = {} THEN << s, <<>>, <<>> >>
        ELSE << SubSeq(s, 1, SetMin(at) - 1), <<b>>, From(s, SetMin(at)) >>

RECURSIVE Split(_, _)
\* s.split(chr(b))
Split(s, b) ==
    LET at == {i \in 1..Len(s) : s[i] = b}
    IN  IF at = {} THEN <<s>>
        ELSE <<SubSeq(s, 1, SetMin(at) - 1)>> \o Split(From(s, SetMin(at)), b)

\* os.path.basename(p)
Basename(p) == From(p, Rfind(p, 47) + 1)

\* list(chunks(iterable, chunksize))
erc_chunks(iterable, chunksize) ==
    [k \in 1..((Len(iterable) + chunksize - 1) \div chunksize) |->
        Slice(iterable, (k - 1) * chunksize, k * chunksize)]

\* multifind(haystack, needles, start, end): the index of the first
\* character of haystack that is one of needles and lies in start..end
multifind(haystack, needles, start, end) ==
    LET found == {index \in 0..(Len(haystack) - 1) :
                     /\ start <= index /\ index <= end
                     /\ <<haystack[index + 1]>> \in needles}
    IN  IF found = {} THEN -1 ELSE SetMin(found)

\* checksum(block, stop, start)
checksum(block, stop, start) == Sum(Slice(block, start, stop))

\* the size of a block body
BlockSize == 256

\* encode(header_code, body, name_block): the blocks, or the exception
erc_encode(header_code, body, name_block) ==
    LET parts == Partition(body, 13)
        body_chunks ==
            IF name_block
            THEN <<parts[1] \o S_CR>> \o erc_chunks(parts[3], BlockSize)
            ELSE erc_chunks(body, BlockSize)
        final_chunk == Len(body_chunks) - 1
        Text(i) ==
            IF i = 1
            THEN SOH \o header_code \o STX \o body_chunks[1]
                     \o (IF final_chunk > 0 THEN ETB ELSE ETX)
            ELSE STX \o body_chunks[i]
                     \o (IF i - 2 < final_chunk - 1 THEN ETB ELSE ETX)
        Packed(i) == PackH(checksum(Text(i), Len(Text(i)) + 2, 1))
    IN  IF body_chunks = <<>>
        THEN [kind |-> "IndexError", blocks |-> <<>>]
        ELSE IF \E i \in 1..Len(body_chunks) : Packed(i).kind # "ok"
        THEN [kind |-> "struct.error", blocks |-> <<>>]
        ELSE [kind |-> "ok",
              blocks |-> [i \in 1..Len(body_chunks) |->
                            Text(i) \o Packed(i).bytes]]

BlockFail(k) == [kind |-> k, body |-> <<>>, header |-> <<>>, footer |-> <<>>]

\* decode(block): the Message, or the exception.  The header of a block
\* that begins with STX is the 1-tuple (block[1],), written <<-1, block[1]>>
\* here: no string begins with -1.
erc_decode(block) ==
    IF ~(StartsWith(block, SOH) \/ StartsWith(block, STX))
    THEN BlockFail("InvalidBlockStart")
    ELSE IF StartsWith(block, SOH) /\ Len(block) < 8
    THEN BlockFail("struct.error")
    ELSE IF StartsWith(block, STX) /\ Len(block) < 2
    THEN BlockFail("IndexError")
    ELSE
      LET header_bytes == IF StartsWith(block, SOH) THEN 8 ELSE 1
          header == IF StartsWith(block, SOH) THEN Slice(block, 1, 7)
                    ELSE <<-1, block[2]>>
          max_search_length == BlockSize + header_bytes + 1
          body_end == multifind(block, {ETX, ETB}, header_bytes,
                                max_search_length)
          block_length == body_end + 3
          footer == Slice(block, body_end, block_length)
          calculated_checksum == checksum(block, block_length - 2, 1)
      IN  IF body_end < 0
          THEN IF Len(block) < max_search_length
               THEN BlockFail("InvalidBlockNeedMore")
               ELSE BlockFail("InvalidBlockBody")
          ELSE IF Len(footer) # 3 THEN BlockFail("struct.error")
          ELSE IF UnpackH(Tail(footer)) # calculated_checksum
          THEN BlockFail("InvalidBlockChecksum")
          ELSE [kind |-> "ok", body |-> Slice(block, header_bytes, body_end),
                header |-> header, footer |-> <<footer[1]>>]

\* filename_to_rootname(filename)
filename_to_rootname(filename) == SplitExt(Basename(filename))[1]

\* namefix(filename, content) of erc.py
erc_namefix(filename, content) ==
    LET expected_jobname == filename_to_rootname(filename)
        expected_entry == S_NAME \o expected_jobname
        lines == SplitLines(content)
        result == [i \in 1..Len(lines) |->
                     IF StartsWith(lines[i], S_NAME)
                        /\ lines[i] # expected_entry
                     THEN expected_entry ELSE lines[i]]
    IN  Join(S_CRLF, result) \o S_CRLF

\* header_code_lookup(mode, filename): the code, or RuntimeError
header_code_lookup(mode, filename) ==
    LET key == mode \o <<32>> \o
                  (IF EndsWith(filename, S_JBI) THEN S_ANY_JBI
                   ELSE IF EndsWith(filename, S_JBR) THEN S_ANY_JBR
                   ELSE Basename(filename))
        codes == {c \in DOMAIN TRANSACTIONS : TRANSACTIONS[c] = key}
    IN  IF codes = {} THEN [kind |-> "RuntimeError", code |-> <<>>]
        ELSE [kind |-> "ok", code |-> CHOOSE c \in codes : TRUE]

\* a lookup that finds no extension
no_extension(header_code) == <<>>

\* header_extension_lookup(header_code)
header_extension_lookup(header_code) ==
    SplitExt(IF header_code \in DOMAIN TRANSACTIONS
             THEN TRANSACTIONS[header_code] ELSE S_UNKNOWN_DAT)[2]

---------------------------------------------------------------------------
(* src/remote/erc.py: class ERC.  An engine runs from one raw_read to the  *)
(* next; what it does in between is computed on a record s that holds its *)
(* attributes and locals, the blocks it wrote (out), the events of the     *)
(* step (ev) and the value of the last call (val).                         *)

Ev(by, what, data) == [by |-> by, ev |-> what, data |-> data]

Self(e) == [by |-> e, bit |-> ack_bit[e], out |-> <<>>, ev |-> <<>>,
            val |-> <<>>, epc |-> epc[e], expected |-> expected[e],
            msg |-> msg[e], outq |-> outq[e], tries |-> tries[e],
            ctx |-> ctx[e], rx |-> rx[e], disk |-> disk[e], ret |-> ret[e]]

\* raw_read: everything the peer wrote since the last read (it blocks
\* while there is nothing)
raw_read(e) == Concat(link[e])

\* the engine read raw_block and begins a step
Reading(e) ==
    [Self(e) EXCEPT !.ev = <<Ev(e, "raw_read", raw_read(e))>>]

\* the step ends: s becomes the state of engine s.by
Step(s, read) ==
    /\ ack_bit' = [ack_bit EXCEPT ![s.by] = s.bit]
    /\ link' = [p \in Engines |->
                  IF p = s.by THEN (IF read THEN <<>> ELSE link[p])
                  ELSE link[p] \o s.out]
    /\ trace' = trace \o s.ev
    /\ epc' = [epc EXCEPT ![s.by] = s.epc]
    /\ expected' = [expected EXCEPT ![s.by] = s.expected]
    /\ msg' = [msg EXCEPT ![s.by] = s.msg]
    /\ outq' = [outq EXCEPT ![s.by] = s.outq]
    /\ tries' = [tries EXCEPT ![s.by] = s.tries]
    /\ ctx' = [ctx EXCEPT ![s.by] = s.ctx]
    /\ rx' = [rx EXCEPT ![s.by] = s.rx]
    /\ disk' = [disk EXCEPT ![s.by] = s.disk]
    /\ ret' = [ret EXCEPT ![s.by] = s.ret]
    /\ UNCHANGED <<codecVars, streamVars, fc1Vars>>

\* an exception leaves the call (and the loop: nothing catches it)
Raise(s, exception) ==
    [s EXCEPT !.epc = "raised",
              !.ret = [kind |-> exception, value |-> <<>>],
              !.ev = Append(@, Ev(s.by, "raise", <<>>))]

\* the call of the driver returns value
Return(s, kind, value) ==
    [s EXCEPT !.epc = "done", !.ret = [kind |-> kind, value |-> value]]

\* raw_write(message)
raw_write(s, message) ==
    [s EXCEPT !.out = Append(@, message),
              !.ev = Append(@, Ev(s.by, "raw_write", message))]

\* current_ack(): val is the result
current_ack(s) ==
    [s EXCEPT !.val = IF s.bit THEN ACK1 ELSE ACK0,
              !.bit = ~s.bit,
              !.ev = Append(@, Ev(s.by, "current_ack",
                                  IF s.bit THEN ACK1 ELSE ACK0))]

\* send_ack()
send_ack(s) == raw_write(current_ack(s), current_ack(s).val)

\* send_eot() without the reset of the ack bit
send_eot_keep(s) ==
    [raw_write(s, EOT) EXCEPT !.ev = Append(@, Ev(s.by, "send_eot", EOT))]

\* send_eot()
send_eot(s) ==
    [raw_write(s, EOT) EXCEPT !.bit = FALSE,
                              !.ev = Append(@, Ev(s.by, "send_eot", EOT))]

\* receive_eot() without the reset of the ack bit
receive_eot_keep(s, read_from_wire, raw_block) ==
    IF read_from_wire /\ raw_block # EOT
    THEN Raise(s, "InvalidTransaction")
    ELSE [s EXCEPT !.ev = Append(@, Ev(s.by, "receive_eot", EOT))]

\* a receive_eot that leaves ack_bit as it is
eot_keeps_bit(s, read_from_wire, raw_block) ==
    [s EXCEPT !.ev = Append(@, Ev(s.by, "receive_eot", EOT))]

\* receive_eot(read_from_wire), raw_block being what raw_read returns
receive_eot(s, read_from_wire, raw_block) ==
    IF read_from_wire /\ raw_block # EOT
    THEN Raise(s, "InvalidTransaction")
    ELSE [s EXCEPT !.bit = FALSE,
                   !.ev = Append(@, Ev(s.by, "receive_eot", EOT))]

\* send_handshake() up to its raw_read
send_handshake(s) ==
    [current_ack(raw_write(s, ENQ)) EXCEPT
        !.expected = current_ack(raw_write(s, ENQ)).val,
        !.epc = "send_handshake"]

\* confirmed_write: one passage of the loop up to its raw_read
transmit(s) ==
    [current_ack(raw_write(s, Head(s.outq))) EXCEPT
        !.expected = current_ack(raw_write(s, Head(s.outq))).val,
        !.tries = s.tries + 1,
        !.epc = "confirmed_write"]

\* confirmed_write(block) up to its raw_read, block being Head(s.outq)
confirmed_write(s) == transmit([s EXCEPT !.tries = 0])

\* the reply raw_block was accepted as the confirmation
Accepted(s, raw_block) ==
    [s EXCEPT !.ev = Append(@, Ev(s.by, "accept", raw_block))]

\* short_message(header, body) up to the raw_read of send_handshake; then
\* is the caller it returns to
short_message(s, header, body, then) ==
    send_handshake(
        [s EXCEPT !.msg = [header |-> header,
                           body |-> IF EndsWith(body, S_CR) THEN body
                                    ELSE body \o S_CR,
                           name_block |-> FALSE],
                  !.ctx = then])

\* put_file(filename) up to the raw_read of send_handshake
put_file(s, filename, then) ==
    LET header == header_code_lookup(S_PUT, filename)
        rootname == filename_to_rootname(filename)
    IN  IF header.kind # "ok" THEN Raise(s, header.kind)
        ELSE IF filename \notin DOMAIN s.disk THEN Raise(s, "IOError")
        ELSE send_handshake(
                [s EXCEPT !.msg = [header |-> header.code,
                                   body |-> rootname \o S_CR \o
                                       erc_namefix(rootname,
                                                   s.disk[filename]),
                                   name_block |-> TRUE],
                          !.ctx = then])

\* after send_eot the transaction is over: back to the caller
Sent(s) ==
    LET t == [send_eot(s) EXCEPT !.expected = <<>>, !.msg = NoMsg,
                                 !.outq = <<>>, !.tries = 0]
    IN  CASE s.ctx = "short_message" -> Return(t, "None", <<>>)
          [] s.ctx = "put_file" -> Return(t, "True", <<>>)
          [] s.ctx = "loop" -> [t EXCEPT !.epc = "loop"]
          [] OTHER -> [t EXCEPT !.epc = "receive_handshake"]

\* read_message: a block was decoded (or not); first tells the first block
\* of the message from a later one
Received(s, block, first) ==
    IF block.kind # "ok" THEN Raise(s, block.kind)
    ELSE [send_ack(s) EXCEPT
            !.rx = [body |-> (IF first THEN <<>> ELSE s.rx.body)
                                \o block.body,
                    header |-> IF first THEN block.header ELSE s.rx.header,
                    footer |-> block.footer],
            !.epc = IF block.footer = ETB THEN "read_message_next"
                    ELSE "receive_eot"]

\* read_message(raw_block) up to its next raw_read.  A control character
\* is returned as a ControlChar, which has no body: the callers that get
\* one fail with AttributeError
read_message(s, raw_block) ==
    IF ~(StartsWith(raw_block, SOH) \/ StartsWith(raw_block, STX))
    THEN IF raw_block \in CONTROL_CHARS THEN Raise(s, "AttributeError")
         ELSE Raise(s, "InvalidBlockStart")
    ELSE Received(s, erc_decode(raw_block), TRUE)

\* handle_incoming_file(message, confirm)
handle_incoming_file(s, message, confirm) ==
    LET parts == Partition(message.body, 13)
        filename == parts[1] \o header_extension_lookup(message.header)
        saved == [s EXCEPT
                    !.disk = [f \in DOMAIN s.disk \cup {filename} |->
                                IF f = filename THEN parts[3]
                                ELSE s.disk[f]],
                    !.ev = @ \o <<Ev(s.by, "open", filename),
                                  Ev(s.by, "write", parts[3])>>]
    IN  IF filename = <<>> THEN Raise(s, "IOError")
        ELSE IF confirm THEN short_message(saved, Code(90, 0), S_0000, "loop")
        ELSE Return(saved, "str", filename)

\* handle_file_request(message)
handle_file_request(s, message) ==
    LET requested_name == Strip(message.body)
        filename == requested_name \o header_extension_lookup(message.header)
    IN  IF filename \notin DOMAIN s.disk
        THEN short_message(s, Code(90, 0), S_4040, "loop")
        ELSE put_file(s, filename, "loop")

\* the transmissions of one block the model follows (the code has no limit)
MaxTries == 3

\* the engine is called: the event names the method and its argument
Calling(e, method, argument) ==
    [Self(e) EXCEPT !.ev = <<Ev(e, method, argument)>>]

\* put_file(filename, confirm=confirm)
CallPutFile(e, filename, confirm) ==
    /\ epc[e] = "ready"
    /\ Step(put_file(Calling(e, "put_file", filename), filename,
                     IF confirm THEN "put_file_confirm" ELSE "put_file"),
            FALSE)

\* short_message(header, body)
CallShortMessage(e, header, body) ==
    /\ epc[e] = "ready"
    /\ Step(short_message(Calling(e, "short_message", header \o body),
                          header, body, "short_message"),
            FALSE)

\* get_file(filename)
CallGetFile(e, filename) ==
    /\ epc[e] = "ready"
    /\ LET s == Calling(e, "get_file", filename)
           header == header_code_lookup(S_GET, filename)
       IN  Step(IF header.kind # "ok" THEN Raise(s, header.kind)
                ELSE short_message(s, header.code,
                                   filename_to_rootname(filename),
                                   "get_file"),
                FALSE)

\* get_file(filename, header=header)
CallGetFileAs(e, filename, header) ==
    /\ epc[e] = "ready"
    /\ Step(short_message(Calling(e, "get_file", filename), header,
                          filename_to_rootname(filename), "get_file"),
            FALSE)

\* execute_command(command_string)
CallExecuteCommand(e, command_string) ==
    /\ epc[e] = "ready"
    /\ Step(short_message(Calling(e, "execute_command", command_string),
                          Code(1, 0),
                          IF EndsWith(command_string, S_CR)
                          THEN command_string ELSE command_string \o S_CR,
                          "execute_command"),
            FALSE)

\* send_handshake from its raw_read on, and the callers up to the raw_read
\* of the first confirmed_write
SendHandshakeReply(e) ==
    /\ epc[e] = "send_handshake" /\ link[e] # <<>>
    /\ LET s == Reading(e)
           raw_block == raw_read(e)
           blocks == erc_encode(s.msg.header, s.msg.body, s.msg.name_block)
       IN  Step(IF raw_block # s.expected
                THEN Raise(s, "InvalidTransaction")
                ELSE IF blocks.kind # "ok"
                THEN Raise(Accepted(s, raw_block), blocks.kind)
                ELSE confirmed_write(
                        [Accepted(s, raw_block) EXCEPT
                            !.outq = IF s.msg.name_block THEN blocks.blocks
                                     ELSE <<blocks.blocks[1]>>]),
                TRUE)

\* confirmed_write from its raw_read on: the next passage of its loop, or
\* the next block, or send_eot and what the caller does then
ErcConfirmedWriteReply(e) ==
    /\ epc[e] = "confirmed_write" /\ link[e] # <<>>
    /\ raw_read(e) = expected[e] \/ tries[e] < MaxTries
    /\ LET s == Reading(e)
           raw_block == raw_read(e)
           rest == [Accepted(s, raw_block) EXCEPT !.outq = Tail(s.outq)]
       IN  Step(IF raw_block # s.expected THEN transmit(s)
                ELSE IF rest.outq # <<>> THEN confirmed_write(rest)
                ELSE Sent(rest),
                TRUE)

\* receive_handshake from its raw_read on, then read_message up to its
\* raw_read
ReceiveHandshake(e) ==
    /\ epc[e] = "receive_handshake" /\ link[e] # <<>>
    /\ Step(IF raw_read(e) # ENQ
            THEN Raise(Reading(e), "InvalidTransaction")
            ELSE [send_ack(Reading(e)) EXCEPT !.epc = "read_message"],
            TRUE)

\* read_message() from its first raw_read on
ReadMessage(e) ==
    /\ epc[e] = "read_message" /\ link[e] # <<>>
    /\ Step(read_message(Reading(e), raw_read(e)), TRUE)

\* read_message from the raw_read of a later block on
ReadMessageNext(e) ==
    /\ epc[e] = "read_message_next" /\ link[e] # <<>>
    /\ Step(Received(Reading(e), erc_decode(raw_read(e)), FALSE), TRUE)

\* receive_eot() as read_message calls it, from its raw_read on;
\* read_message returns the message
ReceiveEot(e) ==
    /\ epc[e] = "receive_eot" /\ link[e] # <<>>
    /\ LET s == receive_eot(Reading(e), TRUE, raw_read(e))
       IN  Step(IF s.epc = "raised" THEN s ELSE [s EXCEPT !.epc = "message"],
                TRUE)

\* loop(): one raw_read and what it leads to, up to the next raw_read or
\* to the return of read_message
Loop(e) ==
    /\ epc[e] = "loop" /\ link[e] # <<>>
    /\ LET s == Reading(e)
           raw_block == raw_read(e)
       IN  Step(IF raw_block = ENQ THEN send_ack(s)
                ELSE IF raw_block = EOT THEN receive_eot(s, FALSE, raw_block)
                ELSE IF ~StartsWith(raw_block, SOH) THEN s
                ELSE read_message(s, raw_block),
                TRUE)

\* loop(): the message read_message returned goes to its handler
LoopDispatch(e) ==
    /\ epc[e] = "message" /\ ctx[e] = "loop"
    /\ LET s == [Self(e) EXCEPT !.rx = NoRx]
           message == rx[e]
       IN  Step(IF message.header \notin DOMAIN handlers
                THEN [s EXCEPT !.epc = "loop"]
                ELSE IF handlers[message.header] = "handle_incoming_file"
                THEN handle_incoming_file(s, message, TRUE)
                ELSE handle_file_request(s, message),
                FALSE)

\* receive_execution_response() once read_message returned, and the
\* return of put_file or execute_command
ReceiveExecutionResponse(e) ==
    /\ epc[e] = "message" /\ ctx[e] \in {"put_file_confirm", "execute_command"}
    /\ LET s == [Self(e) EXCEPT !.rx = NoRx]
           message == rx[e]
           body == Strip(message.body)
       IN  Step(IF message.header = Code(90, 1)
                THEN Return(s, "list",
                            Split(Join(<<44>>, SplitLines(body)), 44))
                ELSE IF message.header # Code(90, 0)
                THEN Raise(s, "InvalidTransaction")
                ELSE IF s.ctx = "execute_command"
                THEN Return(s, "list", <<>>)
                ELSE IF body # S_0000 THEN Return(s, "str", body)
                ELSE Return(s, "None", <<>>),
                FALSE)

\* get_file once read_message returned
GetFileSave(e) ==
    /\ epc[e] = "message" /\ ctx[e] = "get_file"
    /\ Step(handle_incoming_file([Self(e) EXCEPT !.rx = NoRx], rx[e], FALSE),
            FALSE)

---------------------------------------------------------------------------
(* Specification SpecAck: any sequence of current_ack, send_ack, send_eot *)
(* and receive_eot calls on a fresh ERC session                           *)

\* the calls and reads the model follows in one session
MaxEvents == 5

\* what the peer may have put on the wire when receive_eot reads it
EotReads == {EOT, ENQ, ACK0}

\* the engines begin at pcs with directories among dirs: ERC.__init__
StartErc(pcs, dirs) ==
    /\ CodecIdle /\ StreamIdle /\ Fc1Idle
    /\ ack_bit = [e \in Engines |-> FALSE]
    /\ epc = pcs
    /\ link = [e \in Engines |-> <<>>]
    /\ expected = [e \in Engines |-> <<>>]
    /\ msg = [e \in Engines |-> NoMsg]
    /\ outq = [e \in Engines |-> <<>>]
    /\ tries = [e \in Engines |-> 0]
    /\ ctx = [e \in Engines |-> IF pcs[e] = "loop" THEN "loop" ELSE "none"]
    /\ rx = [e \in Engines |-> NoRx]
    /\ disk \in dirs
    /\ ret = [e \in Engines |-> NoRet]
    /\ trace = <<>>

InitAck ==
    StartErc([e \in Engines |-> IF e = "driver" THEN "api" ELSE "off"],
             {[e \in Engines |-> <<>>]})

Api(e) == epc[e] = "api" /\ Len(trace) < MaxEvents

\* current_ack()
CallCurrentAck(e) == Api(e) /\ Step(current_ack(Self(e)), FALSE)

\* send_ack()
CallSendAck(e) == Api(e) /\ Step(send_ack(Self(e)), FALSE)

\* send_eot()
CallSendEot(e) == Api(e) /\ Step(send_eot(Self(e)), FALSE)

\* receive_eot(read_from_wire), the wire holding raw_block; the session
\* outlives the InvalidTransaction
CallReceiveEot(e, read_from_wire, raw_block) ==
    /\ Api(e)
    /\ LET s == IF read_from_wire
                THEN [Self(e) EXCEPT !.ev = <<Ev(e, "raw_read", raw_block)>>]
                ELSE Self(e)
       IN  Step([receive_eot(s, read_from_wire, raw_block) EXCEPT
                    !.epc = "api"], FALSE)

NextAck ==
    \/ CallCurrentAck("driver")
    \/ CallSendAck("driver")
    \/ CallSendEot("driver")
    \/ \E read_from_wire \in BOOLEAN, raw_block \in EotReads :
          CallReceiveEot("driver", read_from_wire, raw_block)

SpecAck == InitAck /\ [][NextAck]_vars

---------------------------------------------------------------------------
(* Specification SpecSend: an engine sends a message to a peer that may   *)
(* answer anything                                                        *)

\* "J.JBI", "TOOL.DAT", "X.TXT"
E_JOB == <<74>> \o S_JBI
E_TOOL == <<84, 79, 79, 76, 46, 68, 65, 84>>
E_TXT == <<88, 46, 84, 88, 84>>

\* "NOP\rEND\r"
NopEnd == <<78, 79, 80, 13, 69, 78, 68, 13>>

\* "RSTATS"
S_RSTATS == <<82, 83, 84, 65, 84, 83>>

\* file contents: empty, two lines, a wrong name line, more than a block
ErcContents == {<<>>, NopEnd, JobText, Rep(78, BlockSize + 1)}

DriverDirs == {<<>>} \cup {[f \in {E_JOB, E_TOOL} |-> c] : c \in ErcContents}

\* "X.DAT"
E_XDAT == <<88, 46, 68, 65, 84>>

ServerDirs == {<<>>, [f \in {E_JOB} |-> NopEnd],
               [f \in {E_JOB, E_TOOL, E_XDAT} |-> NopEnd]}

\* bodies of short messages: a code, more than one block holds, and a job
\* with its name ("J\rNOP\rEND\r")
ShortBodies == {S_0000, Rep(65, BlockSize + 1), <<74, 13>> \o NopEnd}

\* headers of short messages: a confirmation, a command, a job
ShortHeaders == {Code(90, 0), Code(1, 0), Code(2, 1)}

\* what the peer answers to ENQ or to a block
PeerReplies == {ACK0, ACK1, NAK}

InitSend ==
    StartErc([e \in Engines |-> IF e = "driver" THEN "ready" ELSE "off"],
             {[e \in Engines |-> IF e = "driver" THEN d ELSE <<>>] :
                 d \in DriverDirs})

\* the peer answers the ENQ or the block the driver wrote
PeerReply(r) ==
    /\ epc["driver"] \in {"send_handshake", "confirmed_write"}
    /\ link["driver"] = <<>>
    /\ link' = [link EXCEPT !["driver"] = <<r>>]
    /\ UNCHANGED <<codecVars, streamVars, fc1Vars, ack_bit, epc, expected,
                   msg, outq, tries, ctx, rx, disk, ret, trace>>

NextSend ==
    \/ \E filename \in {E_JOB, E_TOOL, E_TXT}, confirm \in BOOLEAN :
          CallPutFile("driver", filename, confirm)
    \/ \E header \in ShortHeaders, body \in ShortBodies :
          CallShortMessage("driver", header, body)
    \/ SendHandshakeReply("driver")
    \/ ErcConfirmedWriteReply("driver")
    \/ \E r \in PeerReplies : PeerReply(r)

SpecSend == InitSend /\ [][NextSend]_vars

---------------------------------------------------------------------------
(* Specification SpecLink: a driver engine makes one call; a server       *)
(* engine runs loop(); the link delivers every write, unaltered           *)

InitLink ==
    StartErc([e \in Engines |-> IF e = "driver" THEN "ready" ELSE "loop"],
             {[e \in Engines |-> IF e = "driver" THEN d ELSE v] :
                 d \in DriverDirs, v \in ServerDirs})

NextLink ==
    \/ \E filename \in {E_JOB, E_TOOL, E_TXT}, confirm \in BOOLEAN :
          CallPutFile("driver", filename, confirm)
    \/ \E header \in ShortHeaders, body \in ShortBodies :
          CallShortMessage("driver", header, body)
    \/ \E filename \in {E_JOB, E_TOOL, E_TXT} : CallGetFile("driver", filename)
    \/ \E filename \in {E_TOOL, E_XDAT}, header \in {Code(2, 61), Code(2, 62)} :
          CallGetFileAs("driver", filename, header)
    \/ CallExecuteCommand("driver", S_RSTATS)
    \/ \E e \in Engines : SendHandshakeReply(e)
    \/ \E e \in Engines : ErcConfirmedWriteReply(e)
    \/ \E e \in Engines : ReceiveHandshake(e)
    \/ \E e \in Engines : ReadMessage(e)
    \/ \E e \in Engines : ReadMessageNext(e)
    \/ \E e \in Engines : ReceiveEot(e)
    \/ \E e \in Engines : Loop(e)
    \/ \E e \in Engines : LoopDispatch(e)
    \/ \E e \in Engines : ReceiveExecutionResponse(e)
    \/ \E e \in Engines : GetFileSave(e)

SpecLink == InitLink /\ [][NextLink]_vars

---------------------------------------------------------------------------
(* Properties of the ERC engines *)

\* the other end of the link
Peer(e) == IF e = "driver" THEN "server" ELSE "driver"

\* the events of engine e, in order
By(e) == SelectSeq(trace, LAMBDA x : x.by = e)

\* the events of s after its last event of a kind in marks
Since(s, marks) ==
    LET at == {i \in 1..Len(s) : s[i].ev \in marks}
    IN  IF at = {} THEN s ELSE SubSeq(s, SetMax(at) + 1, Len(s))

\* the data of the events of kind what in s, in order
Data(s, what) ==
    LET sel == SelectSeq(s, LAMBDA x : x.ev = what)
    IN  [i \in 1..Len(sel) |-> sel[i].data]

\* ACK0, ACK1, ACK0, ...
NthAck(i) == IF i % 2 = 1 THEN ACK0 ELSE ACK1
Alternating(acks) == \A i \in 1..Len(acks) : acks[i] = NthAck(i)

IsPrefix(a, b) == Len(a) <= Len(b) /\ a = SubSeq(b, 1, Len(a))

\* the outputs of current_ack since the last EOT sent or received
AcksSinceEot(e) ==
    Data(Since(By(e), {"send_eot", "receive_eot"}), "current_ack")

(* C1: from a fresh session, after any sequence of current_ack, send_ack, *)
(* send_eot and receive_eot calls, the outputs of current_ack since the   *)
(* most recent EOT sent or received (or since construction) are ACK0,     *)
(* ACK1, ACK0, ... : the first is ACK0, each is the opposite of the       *)
(* previous one.                                                          *)
C1_AckAlternation == \A e \in Engines : Alternating(AcksSinceEot(e))

\* an EOT between acks: two outputs since it, after at least one before it
C1_AcksAfterEot ==
    /\ Len(AcksSinceEot("driver")) >= 2
    /\ Len(Data(By("driver"), "current_ack")) > Len(AcksSinceEot("driver"))

\* the acks the driver accepted as confirmation in its transaction
AcceptedAcks == Data(By("driver"), "accept")

(* C2: within one transaction of a sending engine (send_handshake, the    *)
(* confirmed_write of each block, send_eot) the acks the engine accepts   *)
(* as confirmation strictly alternate, beginning with ACK0 for the        *)
(* handshake, whatever the peer answers, retransmissions included.        *)
C2_AcceptedAlternate == Alternating(AcceptedAcks)

(* C3: a sender (put_file or short_message) and a receiver (loop,         *)
(* read_message) on a link that loses and alters nothing: every ack the   *)
(* receiver writes is the one the sender expects, no block is sent twice, *)
(* and when the EOT has been sent and received both ack bits are false.   *)
C3_AcksInStep ==
    \A e \in Engines :
        /\ (epc[e] \in {"send_handshake", "confirmed_write"}
                /\ link[e] # <<>>) => raw_read(e) = expected[e]
        /\ tries[e] <= 1
        /\ epc[e] = "message" => ~ack_bit[e] /\ ~ack_bit[Peer(e)]

\* the server has read a message of three blocks and its EOT
C3_ThreeBlocks ==
    /\ epc["server"] = "message"
    /\ Len(rx["server"].body) > BlockSize
    /\ AcceptedAcks = <<ACK0, ACK1, ACK0, ACK1>>

\* a block as section 3 of the specification lays it out: the text, then
\* the sum of its bytes after the first, modulo 65536, low byte first
BscBlock(text) ==
    text \o << Sum(Tail(text)) % 256, (Sum(Tail(text)) \div 256) % 256 >>

\* what the server reads, writes and stores, in order
ServerView ==
    LET sel == SelectSeq(By("server"),
                         LAMBDA x : x.ev \in {"raw_read", "raw_write",
                                              "open", "write"})
    IN  [i \in 1..Len(sel) |-> <<sel[i].ev, sel[i].data>>]

\* "J\rNOP\rEND\r": the name J and a job, as one body
S_J_JOB == <<74>> \o S_CR \o NopEnd

\* a message as section 3 of the specification frames it: the first block
\* with the header, ETB after every body but the last, ETX after the last
BscMessage(header, bodies) ==
    [k \in 1..Len(bodies) |->
        BscBlock((IF k = 1 THEN SOH \o header \o STX ELSE STX)
                 \o bodies[k]
                 \o (IF k < Len(bodies) THEN ETB ELSE ETX))]

\* the incoming files the driver can send: what put_file sends for a file
\* it has (the name in a block of its own), and J.JBI in a single block
IncomingFiles ==
    {[file |-> f,
      content |-> erc_namefix(f, disk["driver"][f]),
      blocks |-> BscMessage(
                    IF f = E_JOB THEN Code(2, 1) ELSE Code(2, 12),
                    <<SplitExt(f)[1] \o S_CR>>
                        \o erc_chunks(erc_namefix(f, disk["driver"][f]),
                                      BlockSize))] :
        f \in DOMAIN disk["driver"] \cap {E_JOB, E_TOOL}}
    \cup {[file |-> E_JOB, content |-> NopEnd,
           blocks |-> BscMessage(Code(2, 1), <<S_J_JOB>>)]}

\* what the server reads when m arrives and the peer confirms its answer
IncomingFileReads(m) == <<ENQ>> \o m.blocks \o <<EOT, ACK0, ACK1>>

\* the server's part when m arrives: an ack for the ENQ and for every
\* block, the file, then the confirmation
IncomingFileView(m) ==
    << <<"raw_read", ENQ>>, <<"raw_write", ACK0>> >>
    \o Concat([k \in 1..Len(m.blocks) |->
                 << <<"raw_read", m.blocks[k]>>,
                    <<"raw_write", NthAck(k + 1)>> >>])
    \o << <<"raw_read", EOT>>,
          <<"open", m.file>>,
          <<"write", m.content>>,
          <<"raw_write", ENQ>>,
          <<"raw_read", ACK0>>,
          <<"raw_write", BscBlock(SOH \o Code(90, 0) \o STX \o S_0000
                                      \o S_CR \o ETX)>>,
          <<"raw_read", ACK1>>,
          <<"raw_write", EOT>> >>

\* the server has read m, or the beginning of it
Arrives(m) ==
    /\ Len(By("server")) > 2
    /\ IsPrefix(Data(By("server"), "raw_read"), IncomingFileReads(m))

(* C4: when the server loop receives ENQ, a message with an incoming-file *)
(* code and body <name>\r<content>, then EOT, it answers the ENQ with     *)
(* ACK0 and each block with the next alternating ack, writes exactly      *)
(* <content> to <name><extension of the code>, and only then sends the    *)
(* confirmation: ENQ, after ACK0 the block 90,000 "0000\r" ETX, after     *)
(* ACK1 the EOT.                                                          *)
C4_IncomingFile ==
    \A m \in IncomingFiles :
        Arrives(m) =>
            /\ IsPrefix(ServerView, IncomingFileView(m))
            /\ <<"write", m.content>>
                   \in {ServerView[i] : i \in 1..Len(ServerView)}
               => /\ m.file \in DOMAIN disk["server"]
                  /\ disk["server"][m.file] = m.content

\* a file of three blocks arrived and the confirmation went out to its EOT
C4_Confirmed ==
    \E m \in IncomingFiles :
        /\ Len(m.blocks) = 3
        /\ ServerView = IncomingFileView(m)
        /\ disk["server"][m.file] = m.content

---------------------------------------------------------------------------
(* Specification SpecBsc: erc.encode applied to a header code and a body,  *)
(* and erc.decode applied to each block it returns                        *)

\* the most blocks a body without a name needs
MaxBlocks == 3

\* body lengths at the edges of the blocks
BodyLengths ==
    {1, BlockSize - 1}
        \cup {k * BlockSize + d : k \in 1..(MaxBlocks - 1), d \in {0, 1}}

\* a letter, the two terminators, and the greatest byte
BodyBytes == {65, 3, 23, 255}

PlainBodies == {Rep(b, n) : b \in BodyBytes, n \in BodyLengths}

\* bodies whose first line is a name: "J\r" and what follows it
NamedBodies ==
    {<<74>> \o S_CR \o rest :
        rest \in {<<>>} \cup {Rep(65, n) : n \in BodyLengths}}

\* "99,999": a code the table does not have
UnknownCode == Code(99, 999)

BscInputs ==
    [header_code : DOMAIN TRANSACTIONS \cup {UnknownCode},
     body : PlainBodies \cup NamedBodies,
     name_block : BOOLEAN]

InitBsc == /\ c_payload = <<>>
           /\ c_enc = NoEnc
           /\ c_dec = DecodeFail("none")
           /\ b_in \in BscInputs
           /\ b_enc = NoBlocks
           /\ b_dec = <<>>
           /\ b_ext = <<"none">>
           /\ NamefixIdle
           /\ StreamIdle
           /\ Fc1Idle
           /\ ErcIdle

\* blocks = encode(header_code, body, name_block)
BscEncode ==
    /\ b_enc.kind = "none"
    /\ b_enc' = erc_encode(b_in.header_code, b_in.body, b_in.name_block)
    /\ UNCHANGED <<c_payload, c_enc, c_dec, b_in, b_dec, b_ext, n_in, n_out>>
    /\ UNCHANGED <<streamVars, fc1Vars, ercVars>>

\* [decode(block) for block in blocks], when encode returned
BscDecode ==
    /\ b_enc.kind = "ok" /\ b_dec = <<>>
    /\ b_dec' = [i \in 1..Len(b_enc.blocks) |-> erc_decode(b_enc.blocks[i])]
    /\ UNCHANGED <<c_payload, c_enc, c_dec, b_in, b_enc, b_ext, n_in, n_out>>
    /\ UNCHANGED <<streamVars, fc1Vars, ercVars>>

\* header_extension_lookup(header_code)
BscExtension ==
    /\ b_ext = <<"none">>
    /\ b_ext' = header_extension_lookup(b_in.header_code)
    /\ UNCHANGED <<c_payload, c_enc, c_dec, b_in, b_enc, b_dec, n_in, n_out>>
    /\ UNCHANGED <<streamVars, fc1Vars, ercVars>>

NextBsc == BscEncode \/ BscDecode \/ BscExtension

SpecBsc == InitBsc /\ [][NextBsc]_vars

\* block 0 begins with SOH, the six header bytes and STX, every later
\* block with STX; the byte before the two checksum bytes is ETX in the
\* last block and ETB in every other
BlockShape(blocks, header_code) ==
    /\ Len(blocks) >= 1
    /\ Len(header_code) = 6
    /\ SubSeq(blocks[1], 1, 8) = <<1>> \o header_code \o <<2>>
    /\ \A i \in 2..Len(blocks) : blocks[i][1] = 2
    /\ \A i \in 1..Len(blocks) :
           /\ Len(blocks[i]) >= 4
           /\ blocks[i][Len(blocks[i]) - 2]
                  = IF i = Len(blocks) THEN 3 ELSE 23

(* C20: for every header code and every non-empty body, with and without  *)
(* the name-block flag, the list of blocks encode returns has this shape: *)
(* block 0 begins with SOH, the six header bytes and STX, every later     *)
(* block begins with STX, exactly the last block ends its body with ETX   *)
(* and every other block ends it with ETB.                                *)
C20_BlockShape ==
    b_enc.kind # "none" =>
        /\ b_enc.kind = "ok"
        /\ BlockShape(b_enc.blocks, b_in.header_code)

(* What holds of the shape: every list encode returns has it; encode      *)
(* returns none when the sum of a block's bytes does not fit 16 bits.     *)
C20_ReturnedBlockShape ==
    /\ b_enc.kind \in {"none", "ok", "struct.error"}
    /\ b_enc.kind = "ok" => BlockShape(b_enc.blocks, b_in.header_code)
    /\ b_enc.kind = "struct.error" =>
           \E n \in BodyLengths : n >= BlockSize /\ b_in.body = Rep(255, n)

\* a named body was encoded into a name block and three more
C20_FourBlocks ==
    b_enc.kind = "ok" /\ b_in.name_block /\ Len(b_enc.blocks) = 4

\* the body a block carries: what stands between its STX and its terminator
BodyOf(blocks, i) ==
    SubSeq(blocks[i], IF i = 1 THEN 9 ELSE 2, Len(blocks[i]) - 3)

\* bodies cut a body of n bytes into ceil(n / 256) pieces in order, every
\* piece but the last of exactly 256 bytes, the last of 1 to 256
ChunkedBy256(bodies, body) ==
    /\ Len(bodies) = (Len(body) + 255) \div 256
    /\ \A i \in 1..Len(bodies) :
           /\ Len(bodies[i]) \in 1..256
           /\ i < Len(bodies) => Len(bodies[i]) = 256
    /\ Concat(bodies) = body

\* the block bodies are those C21 describes for this input
ChunkedAsStated(blocks, in) ==
    LET bodies == [i \in 1..Len(blocks) |-> BodyOf(blocks, i)]
        cr == {i \in 1..Len(in.body) : in.body[i] = 13}
    IN  /\ ~in.name_block => ChunkedBy256(bodies, in.body)
        /\ (in.name_block /\ cr # {}) =>
               /\ bodies # <<>>
               /\ bodies[1] = SubSeq(in.body, 1, SetMin(cr))
               /\ ChunkedBy256(Tail(bodies),
                               SubSeq(in.body, SetMin(cr) + 1, Len(in.body)))

(* C21: without the name-block flag a body of n >= 1 bytes is encoded     *)
(* into ceil(n/256) blocks, each block body of at most 256 bytes and all  *)
(* but the last of exactly 256 (256 bytes give one block, 257 give two of *)
(* 256 and 1); with the name-block flag the body of block 0 is the prefix *)
(* up to and including the first \r, whatever its length, and the         *)
(* remainder is chunked by the same rule.                                 *)
C21_Chunking ==
    b_enc.kind # "none" =>
        /\ b_enc.kind = "ok"
        /\ ChunkedAsStated(b_enc.blocks, b_in)

(* What holds of the chunking: every list of blocks encode returns is cut *)
(* as C21 says.                                                           *)
C21_ReturnedChunking ==
    b_enc.kind = "ok" => ChunkedAsStated(b_enc.blocks, b_in)

\* 257 bytes were encoded into two blocks
C21_TwoBlocks ==
    /\ b_enc.kind = "ok" /\ ~b_in.name_block
    /\ Len(b_in.body) = 257 /\ Len(b_enc.blocks) = 2

\* the number the two checksum bytes of a block hold, little-endian
StoredSum(block) == block[Len(block) - 1] + 256 * block[Len(block)]

\* the sum of the bytes of a block from position `first` up to and
\* including the terminator
SumFrom(block, first) == Sum(SubSeq(block, first, Len(block) - 2))

(* C22: for every block the encoder produces, the two checksum bytes hold, *)
(* little-endian, the sum modulo 65536 of the bytes from the byte right    *)
(* after SOH (block 0) or from the STX itself inclusive (continuation      *)
(* blocks) up to and including the terminator ETX/ETB, for every body of   *)
(* up to 256 arbitrary byte values.                                        *)
C22_BlockChecksum ==
    b_enc.kind # "none" =>
        /\ b_enc.kind = "ok"
        /\ \A i \in 1..Len(b_enc.blocks) :
               StoredSum(b_enc.blocks[i])
                   = SumFrom(b_enc.blocks[i], IF i = 1 THEN 2 ELSE 1) % 65536

(* What holds of the checksum: in every block encode returns the two      *)
(* bytes hold the sum of the bytes after the first one (SOH in block 0,   *)
(* STX in a continuation block) up to and including the terminator, a    *)
(* sum below 65536.                                                       *)
C22_SumAfterFirstByte ==
    b_enc.kind = "ok" =>
        \A i \in 1..Len(b_enc.blocks) :
            /\ StoredSum(b_enc.blocks[i]) = SumFrom(b_enc.blocks[i], 2)
            /\ SumFrom(b_enc.blocks[i], 2) < 65536

\* the checksum of block 0 alone is as stated
C22_FirstBlockSum ==
    b_enc.kind = "ok" =>
        StoredSum(b_enc.blocks[1]) = SumFrom(b_enc.blocks[1], 2) % 65536

\* the request codes of the handler table, 02,051 .. 02,080
FileRequestCodes ==
    {Code(2, n) : n \in {51, 52, 61, 62, 63, 64, 65, 66, 67, 68, 70, 72, 73,
                         80}}

\* 02,0(NN - 50) for the request code 02,0NN
AnswerCode(code) == Code(2, 10 * (code[5] - 48) + (code[6] - 48) - 50)

\* the file a request names: the base name and the extension of its code
RequestedFile(block) ==
    LET code == SubSeq(block, 2, 7)
    IN  Strip(SubSeq(block, 9, Len(block) - 3))
            \o (IF code = Code(2, 51) THEN S_JBI
                ELSE IF code = Code(2, 52) THEN <<46, 74, 66, 82>>
                ELSE <<46, 68, 65, 84>>)

\* the positions in the server's events where it read a one-block file
\* request for a file it has
FileRequestsRead ==
    {i \in 1..Len(By("server")) :
        LET x == By("server")[i]
        IN  /\ x.ev = "raw_read" /\ StartsWith(x.data, SOH) /\ Len(x.data) > 11
            /\ SubSeq(x.data, 2, 7) \in FileRequestCodes
            /\ x.data[Len(x.data) - 2] = 3
            /\ RequestedFile(x.data) \in DOMAIN disk["server"]}

\* after the request read at i the server raised nothing and headed every
\* message it sent with `code`
AnsweredWith(i, code) ==
    \A j \in (i + 1)..Len(By("server")) :
        LET y == By("server")[j]
        IN  /\ y.ev # "raise"
            /\ (y.ev = "raw_write" /\ StartsWith(y.data, SOH)) =>
                   SubSeq(y.data, 2, 7) = code

(* C23: for every file request the server handles, with code 02,0NN (NN    *)
(* one of the request codes 51..80 of the handler table) and any requested *)
(* base name whose file exists, the file message the engine sends back     *)
(* carries the header code 02,0(NN-50): 02,051 is answered with 02,001,    *)
(* 02,062 with 02,012.                                                     *)
C23_AnswerCode ==
    \A i \in FileRequestsRead :
        AnsweredWith(i, AnswerCode(SubSeq(By("server")[i].data, 2, 7)))

(* What holds of the answer: its header is the code the table gives to    *)
(* "put" and the name of the file sent; it is 02,0(NN-50) when the        *)
(* requested name is the one the table has for the request code, or the   *)
(* request is for a job.                                                  *)
C23_AnswerByFileName ==
    \A i \in FileRequestsRead :
        LET code == SubSeq(By("server")[i].data, 2, 7)
            file == RequestedFile(By("server")[i].data)
        IN  (\/ code \in {Code(2, 51), Code(2, 52)}
             \/ TRANSACTIONS[code] = S_GET \o <<32>> \o file)
            => AnsweredWith(i, AnswerCode(code))

\* TOOL.DAT was asked for with its own code and sent back
C23_ToolSent ==
    \E i \in FileRequestsRead :
        /\ SubSeq(By("server")[i].data, 2, 7) = Code(2, 62)
        /\ \E j \in (i + 1)..Len(By("server")) :
               /\ By("server")[j].ev = "raw_write"
               /\ StartsWith(By("server")[j].data, SOH \o Code(2, 12))

(* C24: the extension derived from a transaction code is .JBI for 02,001  *)
(* and 02,051, .JBR for 02,002 and 02,052, and .DAT for every other code, *)
(* whether the code is in the transaction table (including 01,000, the    *)
(* 03,0xx variable codes, 90,000 and 90,001) or unknown.                  *)
C24_Extension ==
    b_ext # <<"none">> =>
        b_ext = IF b_in.header_code \in {Code(2, 1), Code(2, 51)}
                THEN <<46, 74, 66, 73>>
                ELSE IF b_in.header_code \in {Code(2, 2), Code(2, 52)}
                THEN <<46, 74, 66, 82>>
                ELSE <<46, 68, 65, 84>>

(* What holds of the extension: it is as C24 says for the 02,0xx codes    *)
(* and for a code the table does not have, and empty for 01,000, the      *)
(* 03,0xx codes, 90,000 and 90,001, whose entries name no file.           *)
C24_ExtensionOfEntry ==
    b_ext # <<"none">> =>
        b_ext = IF b_in.header_code \in {Code(2, 1), Code(2, 51)}
                THEN <<46, 74, 66, 73>>
                ELSE IF b_in.header_code \in {Code(2, 2), Code(2, 52)}
                THEN <<46, 74, 66, 82>>
                ELSE IF \/ b_in.header_code = UnknownCode
                        \/ SubSeq(b_in.header_code, 1, 2) = <<48, 50>>
                THEN <<46, 68, 65, 84>>
                ELSE <<>>

-----------------------------------------------------------------------------
(* src/remote/erc.py: execute_command against a scripted robot *)

\* the command strings execute_command is called with: "RSTATS" without
\* and with its carriage return
CommandTexts == {S_RSTATS, S_RSTATS \o S_CR}

\* "2,0\r", "1,2\r" and "3\r"
S_2_0 == <<50, 44, 48, 13>>
S_1_2 == <<49, 44, 50, 13>>
S_3 == <<51, 13>>

\* the replies of the robot whose outcome section 6 of the specification
\* states: a 90,001 of one line, a 90,001 of two lines in two blocks, and
\* replies headed neither 90,000 nor 90,001
StatedReplies ==
    {[blocks |-> BscMessage(Code(90, 1), <<S_2_0>>),
      outcome |-> [kind |-> "list", value |-> << <<50>>, <<48>> >>]],
     [blocks |-> BscMessage(Code(90, 1), <<S_1_2, S_3>>),
      outcome |-> [kind |-> "list",
                   value |-> << <<49>>, <<50>>, <<51>> >>]],
     [blocks |-> BscMessage(Code(2, 1), <<S_J_JOB>>),
      outcome |-> [kind |-> "InvalidTransaction", value |-> <<>>]],
     [blocks |-> BscMessage(Code(99, 999), <<S_2_0>>),
      outcome |-> [kind |-> "InvalidTransaction", value |-> <<>>]]}

\* everything the robot puts on the link: control characters, the blocks
\* of the replies above and of the reply 90,000 "0000\r"
RobotWrites ==
    {ENQ, EOT, ACK0, ACK1, NAK}
    \cup UNION {{m.blocks[k] : k \in 1..Len(m.blocks)} : m \in StatedReplies}
    \cup {BscMessage(Code(90, 0), <<S_0000 \o S_CR>>)[1]}

InitCommand ==
    StartErc([e \in Engines |-> IF e = "driver" THEN "ready" ELSE "off"],
             {[e \in Engines |-> <<>>]})

\* the most blocks the robot sends in one reply
MaxReplyBlocks == 2

\* the robot writes raw_block while the driver waits in a raw_read: one of
\* its acknowledgements while the driver sends, anything while it receives
RobotWrite(raw_block) ==
    /\ \/ /\ epc["driver"] \in {"send_handshake", "confirmed_write"}
          /\ raw_block \in PeerReplies
       \/ /\ epc["driver"] \in {"receive_handshake", "read_message",
                                "read_message_next", "receive_eot"}
          /\ Len(Data(Since(By("driver"), {"send_eot"}), "raw_read"))
                <= MaxReplyBlocks + 1
    /\ link["driver"] = <<>>
    /\ link' = [link EXCEPT !["driver"] = <<raw_block>>]
    /\ UNCHANGED <<codecVars, streamVars, fc1Vars, ack_bit, epc, expected,
                   msg, outq, tries, ctx, rx, disk, ret, trace>>

NextCommand ==
    \/ \E command_string \in CommandTexts :
          CallExecuteCommand("driver", command_string)
    \/ \E raw_block \in RobotWrites : RobotWrite(raw_block)
    \/ SendHandshakeReply("driver")
    \/ ErcConfirmedWriteReply("driver")
    \/ ReceiveHandshake("driver")
    \/ ReadMessage("driver")
    \/ ReadMessageNext("driver")
    \/ ReceiveEot("driver")
    \/ ReceiveExecutionResponse("driver")

SpecCommand == InitCommand /\ [][NextCommand]_vars

\* the block of the command message: header 01,000, body "RSTATS\r", ETX
CommandBlock ==
    BscBlock(SOH \o Code(1, 0) \o STX \o S_RSTATS \o S_CR \o ETX)

\* what the driver wrote, and what it read after it sent its EOT
CommandWrites == Data(By("driver"), "raw_write")
ReplyReads ==
    IF \E i \in 1..Len(trace) : trace[i].ev = "send_eot"
    THEN Data(Since(By("driver"), {"send_eot"}), "raw_read")
    ELSE <<>>

\* the place of the driver's EOT among its writes (past the end when it
\* has not been sent)
EotAt ==
    LET at == {i \in 1..Len(CommandWrites) : CommandWrites[i] = EOT}
    IN  IF at = {} THEN Len(CommandWrites) + 1 ELSE SetMin(at)

(* C25: execute_command(text) sends one short message headed 01,000 whose *)
(* body is text with one \r appended only when it was missing (ENQ, the   *)
(* block, retransmitted when it is not confirmed, then EOT), after which  *)
(* it writes only the acks of receive_handshake and read_message, one for *)
(* the ENQ and one for each block of the reply; a reply headed 90,001     *)
(* returns the comma-separated fields of its body lines in order ("2,0\r" *)
(* gives ["2", "0"]) and a reply headed neither 90,000 nor 90,001 fails   *)
(* with InvalidTransaction.                                               *)
C25_ExecuteCommand ==
    /\ \A i \in 1..Len(CommandWrites) :
          CommandWrites[i] =
              IF i = 1 THEN ENQ
              ELSE IF i < EotAt THEN CommandBlock
              ELSE IF i = EotAt THEN EOT
              ELSE NthAck(i - EotAt)
    /\ epc["driver"] = "done" =>
          /\ ret["driver"].kind = "list"
          /\ Len(ReplyReads) >= 3
          /\ ReplyReads[1] = ENQ /\ ReplyReads[Len(ReplyReads)] = EOT
          /\ Len(CommandWrites) = EotAt + Len(ReplyReads) - 1
    /\ \A m \in StatedReplies :
          /\ ReplyReads = <<ENQ>> \o m.blocks \o <<EOT>>
          /\ epc["driver"] # "message"
          => /\ epc["driver"] = IF m.outcome.kind = "list" THEN "done"
                                ELSE "raised"
             /\ ret["driver"] = m.outcome

\* execute_command("RSTATS") returned the two fields of the reply "2,0\r"
C25_TwoFields ==
    /\ epc["driver"] = "done"
    /\ By("driver")[1] = Ev("driver", "execute_command", S_RSTATS)
    /\ ret["driver"] = [kind |-> "list", value |-> << <<50>>, <<48>> >>]

-----------------------------------------------------------------------------
(* src/remote/erc.py: loop() fed by a peer that also sends bad blocks *)

\* "J\rNOP\r" and "END\r": the job J in two bodies
S_J_NOP == <<74>> \o S_CR \o <<78, 79, 80>> \o S_CR
S_END == <<69, 78, 68>> \o S_CR

\* well-formed blocks: the incoming file J in one block, and in two
FileInOne == BscMessage(Code(2, 1), <<S_J_JOB>>)[1]
FileInTwo == BscMessage(Code(2, 1), <<S_J_NOP, S_END>>)

\* a block whose stored checksum is one more than the sum of its bytes
WrongChecksum ==
    LET text == SOH \o Code(2, 1) \o STX \o S_J_JOB \o ETX
    IN  text \o << (Sum(Tail(text)) + 1) % 256,
                   ((Sum(Tail(text)) + 1) \div 256) % 256 >>

\* a block cut off before its terminator, and an over-long body without one
Incomplete == SOH \o Code(2, 1) \o STX \o S_J_NOP
NoTerminator == SOH \o Code(2, 1) \o STX \o Rep(65, BlockSize + 2)

\* what the peer sends to a loop that is reading
LoopReads ==
    {ENQ, EOT, NAK, FileInOne, FileInTwo[1], FileInTwo[2],
     WrongChecksum, Incomplete, NoTerminator}

\* the most raw reads of the server in one behaviour
MaxReads == 5

\* what the server read, in order
ServerReads == Data(By("server"), "raw_read")

InitLoop ==
    StartErc([e \in Engines |-> IF e = "server" THEN "loop" ELSE "off"],
             {[e \in Engines |-> <<>>]})

\* the peer writes raw_block while the server waits in a raw_read: one of
\* its acknowledgements while the server sends, anything while it receives
PeerWrite(raw_block) ==
    /\ \/ /\ epc["server"] \in {"send_handshake", "confirmed_write"}
          /\ raw_block \in PeerReplies
       \/ /\ epc["server"] \in {"loop", "read_message_next", "receive_eot"}
          /\ raw_block \in LoopReads
    /\ link["server"] = <<>>
    /\ Len(ServerReads) < MaxReads
    /\ link' = [link EXCEPT !["server"] = <<raw_block>>]
    /\ UNCHANGED <<codecVars, streamVars, fc1Vars, ack_bit, epc, expected,
                   msg, outq, tries, ctx, rx, disk, ret, trace>>

NextLoop ==
    \/ \E raw_block \in LoopReads \cup PeerReplies : PeerWrite(raw_block)
    \/ Loop("server")
    \/ ReadMessageNext("server")
    \/ ReceiveEot("server")
    \/ LoopDispatch("server")
    \/ SendHandshakeReply("server")
    \/ ErcConfirmedWriteReply("server")

SpecLoop == InitLoop /\ [][NextLoop]_vars

\* the last read of the server was bad: a block with a wrong checksum, an
\* incomplete block, a block without terminator, or something other than
\* EOT after the last block of a message (a block ending with ETX that the
\* server acknowledged)
LastRead == ServerReads[Len(ServerReads)]
BadBlocks == {WrongChecksum, Incomplete, NoTerminator}
MissedEot ==
    LET T == By("server")
        k == SetMax({i \in 1..Len(T) : T[i].ev = "raw_read"})
    IN  /\ k > 3
        /\ T[k - 3].ev = "raw_read"
        /\ T[k - 3].data \in {FileInOne, FileInTwo[2]}
        /\ T[k - 2].ev = "current_ack"
        /\ T[k].data # EOT

(* C26: no input from the link stops the server loop: after it has read a *)
(* block with a wrong checksum, an incomplete block, a block with no      *)
(* terminator, or something other than EOT after the last block of a      *)
(* message, the loop is reading from the link again.                      *)
C26_LoopGoesOn ==
    /\ ServerReads # <<>>
    /\ link["server"] = <<>>
    /\ LastRead \in BadBlocks \/ MissedEot
    => epc["server"] = "loop"

(* What holds of C26 instead: each of these inputs ends the loop with the *)
(* exception of its case, and the server reads nothing after it.          *)
C26_LoopEnds ==
    /\ ServerReads # <<>>
    /\ link["server"] = <<>>
    /\ LastRead \in BadBlocks \/ MissedEot
    => /\ epc["server"] = "raised"
       /\ ret["server"].kind =
             IF MissedEot THEN "InvalidTransaction"
             ELSE IF LastRead = WrongChecksum THEN "InvalidBlockChecksum"
             ELSE IF LastRead = Incomplete THEN "InvalidBlockNeedMore"
             ELSE "InvalidBlockBody"

-----------------------------------------------------------------------------
(* src/remote/erc.py and src/disk/motodisk.py: namefix, applied twice *)

\* the most lines of a content handed to namefix
MaxLines == 2

\* the lines of the contents: "", "NOP", "//NAME" and "//NAME " followed by
\* nothing, "J", "X", "JX" and "J "
FixLines ==
    {<<>>, <<78, 79, 80>>, <<47, 47, 78, 65, 77, 69>>, S_NAME,
     S_NAME \o <<74>>, S_NAME \o <<88>>, S_NAME \o <<74, 88>>,
     S_NAME \o <<74, 32>>}

\* how a line ends: "\r", "\n", "\r\n" or not at all
LineEnds == {<<13>>, <<10>>, S_CRLF, <<>>}

\* the contents: up to MaxLines lines, each with one of the line ends
FixContents ==
    UNION {{Concat([i \in 1..n |-> l[i] \o t[i]]) :
                l \in [1..n -> FixLines], t \in [1..n -> LineEnds]} :
           n \in 0..MaxLines}

\* the files: J.JBI, whose job is J, and JX, which has no extension
FixFiles == {[filename |-> E_JOB, base |-> <<74>>],
             [filename |-> <<74, 88>>, base |-> <<74, 88>>]}

NamefixInputs ==
    [module : {"erc", "motodisk"},
     filename : {f.filename : f \in FixFiles},
     content : FixContents]

InitNamefix ==
    /\ c_payload = <<>> /\ c_enc = NoEnc /\ c_dec = DecodeFail("none")
    /\ b_in = [header_code |-> <<>>, body |-> <<>>, name_block |-> FALSE]
    /\ b_enc = NoBlocks /\ b_dec = <<>> /\ b_ext = <<"none">>
    /\ n_in \in NamefixInputs
    /\ n_out = <<>>
    /\ StreamIdle /\ Fc1Idle /\ ErcIdle

\* namefix(filename, content), then namefix(filename, <its result>)
Namefix ==
    /\ Len(n_out) < 2
    /\ LET content == IF n_out = <<>> THEN n_in.content
                      ELSE n_out[Len(n_out)]
       IN  n_out' = Append(n_out,
                           IF n_in.module = "erc"
                           THEN erc_namefix(n_in.filename, content)
                           ELSE namefix(n_in.filename, content))
    /\ UNCHANGED <<c_payload, c_enc, c_dec, b_in, b_enc, b_dec, b_ext, n_in>>
    /\ UNCHANGED <<streamVars, fc1Vars, ercVars>>

NextNamefix == Namefix

SpecNamefix == InitNamefix /\ [][NextNamefix]_vars

\* the base name of the file handed in
FixBase == (CHOOSE f \in FixFiles : f.filename = n_in.filename).base

\* where the lines of text begin: at its first byte and after every "\n"
LineStarts(text) ==
    {i \in 1..Len(text) : i = 1 \/ text[i - 1] = 10}

\* text has p at place i
HasAt(text, i, p) ==
    i + Len(p) - 1 <= Len(text) /\ SubSeq(text, i, i + Len(p) - 1) = p

(* C27: name-fix is idempotent, namefix(f, namefix(f, c)) = namefix(f, c), *)
(* and in namefix(f, c) every line that begins with "//NAME " is exactly   *)
(* "//NAME <base>", every line ends with \r\n (no \r without the \n after  *)
(* it, no \n without the \r before it) and the result ends with \r\n.      *)
C27_Namefix ==
    /\ Len(n_out) = 2 => n_out[2] = n_out[1]
    /\ Len(n_out) >= 1 =>
          LET text == n_out[1]
          IN  /\ EndsWith(text, S_CRLF)
              /\ \A i \in 1..Len(text) :
                    /\ text[i] = 13 => i < Len(text) /\ text[i + 1] = 10
                    /\ text[i] = 10 => i > 1 /\ text[i - 1] = 13
              /\ \A i \in LineStarts(text) :
                    HasAt(text, i, S_NAME) =>
                        HasAt(text, i, S_NAME \o FixBase \o S_CRLF)

\* "//NAME X\nNOP" of J.JBI was fixed twice: "//NAME J\r\nNOP\r\n"
C27_Renamed ==
    /\ n_in.filename = E_JOB
    /\ n_in.content = S_NAME \o <<88, 10, 78, 79, 80>>
    /\ Len(n_out) = 2
    /\ n_out[2] = S_NAME \o <<74>> \o S_CRLF \o <<78, 79, 80>> \o S_CRLF

-----------------------------------------------------------------------------
(* src/remote/erc.py: read_message fed with the blocks of encode *)

\* bodies of one byte value, a body whose three blocks differ, and a job
RoundBodies ==
    PlainBodies
    \cup {Rep(65, BlockSize) \o Rep(66, BlockSize) \o <<67>>, S_J_JOB}

RoundInputs ==
    [header_code : {Code(2, 1), Code(1, 0), Code(90, 1)},
     body : RoundBodies,
     name_block : {FALSE}]

\* a message to encode, and an engine that has called read_message()
InitRound ==
    /\ c_payload = <<>> /\ c_enc = NoEnc /\ c_dec = DecodeFail("none")
    /\ b_in \in RoundInputs
    /\ b_enc = NoBlocks /\ b_dec = <<>> /\ b_ext = <<"none">>
    /\ NamefixIdle /\ StreamIdle /\ Fc1Idle
    /\ ack_bit = [e \in Engines |-> FALSE]
    /\ epc = [e \in Engines |-> IF e = "server" THEN "read_message"
                                ELSE "off"]
    /\ link = [e \in Engines |-> <<>>]
    /\ expected = [e \in Engines |-> <<>>]
    /\ msg = [e \in Engines |-> NoMsg]
    /\ outq = [e \in Engines |-> <<>>]
    /\ tries = [e \in Engines |-> 0]
    /\ ctx = [e \in Engines |-> "none"]
    /\ rx = [e \in Engines |-> NoRx]
    /\ disk = [e \in Engines |-> <<>>]
    /\ ret = [e \in Engines |-> NoRet]
    /\ trace = <<>>

\* the blocks of encode, then EOT
Feed == b_enc.blocks \o <<EOT>>

\* the next block (or the EOT) arrives when the engine has read the last
FeedBlock ==
    /\ b_enc.kind = "ok"
    /\ epc["server"] \in {"read_message", "read_message_next", "receive_eot"}
    /\ link["server"] = <<>>
    /\ Len(ServerReads) < Len(Feed)
    /\ link' = [link EXCEPT !["server"] = <<Feed[Len(ServerReads) + 1]>>]
    /\ UNCHANGED <<codecVars, streamVars, fc1Vars, ack_bit, epc, expected,
                   msg, outq, tries, ctx, rx, disk, ret, trace>>

NextRound ==
    \/ BscEncode
    \/ FeedBlock
    \/ ReadMessage("server")
    \/ ReadMessageNext("server")
    \/ ReceiveEot("server")

SpecRound == InitRound /\ [][NextRound]_vars

\* the reads and writes of a round trip: every block, the ack after it,
\* and the EOT
RoundView ==
    Concat([k \in 1..Len(b_enc.blocks) |->
              << <<"raw_read", b_enc.blocks[k]>>,
                 <<"raw_write", NthAck(k)>> >>])
    \o << <<"raw_read", EOT>> >>

\* the message read_message returns when all went as stated
RoundMessage == [body |-> b_in.body, header |-> b_in.header_code,
                 footer |-> ETX]

RoundTrip ==
    /\ IsPrefix(ServerView, RoundView)
    /\ epc["server"] # "raised"
    /\ ServerView = RoundView /\ link["server"] = <<>> =>
          /\ epc["server"] = "message"
          /\ ~ack_bit["server"]
          /\ rx["server"] = RoundMessage

(* C28: when read_message is fed, in order, the blocks encode(header,     *)
(* body) produced and then EOT, it accepts every block, writes exactly    *)
(* one ack after each block and before it reads the next, then consumes   *)
(* the EOT and clears ack_bit, and returns the original body, the header  *)
(* of the first block and the terminator ETX.                             *)
C28_RoundTrip == b_enc.kind = "ok" => RoundTrip

(* What holds of C28 instead: the round trip of a body that has no ETX    *)
(* and no ETB byte.                                                       *)
C28_RoundTripOfText ==
    /\ b_enc.kind = "ok"
    /\ \A i \in 1..Len(b_in.body) : <<b_in.body[i]>> \notin {ETX, ETB}
    => RoundTrip

-----------------------------------------------------------------------------
(* src/remote/erc.py: what loop() does with a raw read *)

\* loop() has a raw read to take, and takes it in the step
LoopReading == epc["server"] = "loop" /\ link["server"] # <<>>

\* the step wrote just these messages, ran no handler and left loop()
\* reading
LoopWrote(written) ==
    /\ link'["driver"] = link["driver"] \o written
    /\ trace' = trace \o <<Ev("server", "raw_read", raw_read("server"))>>
                      \o (IF written = <<>> THEN <<>>
                          ELSE <<Ev("server", "current_ack", written[1]),
                                 Ev("server", "raw_write", written[1])>>)
       \/ /\ raw_read("server") = EOT
          /\ trace' = trace \o <<Ev("server", "raw_read", EOT),
                                 Ev("server", "receive_eot", EOT)>>
    /\ epc'["server"] = "loop"
    /\ disk' = disk /\ rx' = rx /\ ret' = ret

\* the effect section 6 of the specification gives each raw read
RawReadEffect ==
    LET raw_block == raw_read("server")
    IN  IF raw_block = ENQ
        THEN /\ LoopWrote(<<IF ack_bit["server"] THEN ACK1 ELSE ACK0>>)
             /\ ack_bit'["server"] = ~ack_bit["server"]
        ELSE IF raw_block = EOT
        THEN LoopWrote(<<>>) /\ ~ack_bit'["server"]
        ELSE IF ~StartsWith(raw_block, SOH)
        THEN LoopWrote(<<>>) /\ ack_bit'["server"] = ack_bit["server"]
        ELSE TRUE

(* C29: in the server loop a raw read that is exactly ENQ makes the       *)
(* engine write exactly one ack (the current one, flipping ack_bit) and   *)
(* nothing else; a raw read that is exactly EOT writes nothing and sets   *)
(* ack_bit to false; a raw read that is neither and does not begin with   *)
(* SOH writes nothing, calls no handler and leaves ack_bit unchanged.     *)
C29_RawReads == [][LoopReading => RawReadEffect]_vars

\* the loop has read ENQ twice, a NAK, a block that begins with STX and an
\* EOT: it wrote ACK0 and ACK1 and its ack_bit is false
C29_FiveReads ==
    /\ ServerReads = <<ENQ, ENQ, NAK, FileInTwo[2], EOT>>
    /\ link["driver"] = <<ACK0, ACK1>>
    /\ epc["server"] = "loop" /\ ~ack_bit["server"]

-----------------------------------------------------------------------------
(* src/remote/erc.py: what short_message puts on the wire *)

\* the driver was called with short_message(header, body)
ShortCalled ==
    /\ By("driver") # <<>>
    /\ By("driver")[1].ev = "short_message"
ShortHeader == SubSeq(By("driver")[1].data, 1, 6)
ShortBody == From(By("driver")[1].data, 6)

\* the one block of the message: the whole body, right-padded with \r when
\* it did not end with one, and ETX
ShortBlock ==
    BscBlock(SOH \o ShortHeader \o STX
             \o (IF EndsWith(ShortBody, S_CR) THEN ShortBody
                 ELSE ShortBody \o S_CR)
             \o ETX)

\* the writes of the driver and the acks it accepted, in order
ShortView ==
    SelectSeq(By("driver"), LAMBDA x : x.ev \in {"raw_write", "accept"})

\* ENQ, an ack, the block (again when it was not confirmed), an ack, EOT
ShortShape ==
    \A i \in 1..Len(ShortView) :
        LET x == ShortView[i]
        IN  IF i = 1 THEN x.ev = "raw_write" /\ x.data = ENQ
            ELSE IF x.ev = "accept"
            THEN ShortView[i - 1].ev = "raw_write"
                 /\ ShortView[i - 1].data \in {ENQ, ShortBlock}
            ELSE \/ x.data = ShortBlock /\ i > 2
                 \/ /\ x.data = EOT /\ i = Len(ShortView) /\ i > 4
                    /\ ShortView[i - 1].ev = "accept"
                    /\ ShortView[i - 2].data = ShortBlock

\* no block the driver wrote ends with ETB
NoEtbSent ==
    \A i \in 1..Len(ShortView) :
        LET x == ShortView[i]
        IN  x.ev = "raw_write" /\ StartsWith(x.data, SOH)
            => <<x.data[Len(x.data) - 2]>> # ETB

(* C30: every message short_message puts on the wire is a complete        *)
(* one-block message, for every header and body: ENQ, then after the      *)
(* expected ack a single block that begins with SOH, carries the whole    *)
(* body right-padded with \r when it did not end with one, and ends with  *)
(* ETX, then after the expected ack EOT; it never sends a block that ends *)
(* with ETB.                                                              *)
C30_OneBlock == ShortCalled => ShortShape /\ NoEtbSent

(* What holds of C30 instead: the same for a body that, padded, fits one  *)
(* block of 256 bytes.                                                    *)
C30_OneBlockWhenItFits ==
    ShortCalled /\ Len(ShortBody) < BlockSize => ShortShape /\ NoEtbSent

-----------------------------------------------------------------------------
(* src/remote/erc.py: what handle_incoming_file does to the directory *)

\* the step of engine e stored something
Stored(e) == disk'[e] # disk[e]

\* the name handle_incoming_file derives from the message e has read
TargetName(e) ==
    Partition(rx[e].body, 13)[1] \o header_extension_lookup(rx[e].header)

(* C31: ERC has no setting that allows overwriting, so overwriting is     *)
(* denied: when the incoming-file handler stores a file whose target name *)
(* already exists, the existing file keeps its content (the incoming      *)
(* content goes to <stem>-N<ext>): no step changes the content of a file  *)
(* that exists.                                                           *)
C31_ExistingKept ==
    [][\A e \in Engines :
          \A f \in DOMAIN disk[e] : disk'[e][f] = disk[e][f]]_vars

(* What holds of C31 instead: the handler writes the content of the       *)
(* message to <name><extension of the code>, whether that file exists or  *)
(* not, and touches no other file.                                        *)
C31_StoredUnderTarget ==
    [][\A e \in Engines :
          Stored(e) =>
              /\ epc[e] = "message"
              /\ DOMAIN disk'[e] = DOMAIN disk[e] \cup {TargetName(e)}
              /\ disk'[e][TargetName(e)] = Partition(rx[e].body, 13)[3]
              /\ \A f \in DOMAIN disk[e] \ {TargetName(e)} :
                    disk'[e][f] = disk[e][f]]_vars

-----------------------------------------------------------------------------
(* src/remote/erc.py: a driver and a server loop, both running *)

\* engine e can go on: it has something to read where it reads, or a
\* message to handle
Runnable(e) ==
    \/ /\ epc[e] \in {"send_handshake", "receive_handshake", "read_message",
                      "read_message_next", "receive_eot", "loop"}
       /\ link[e] # <<>>
    \/ /\ epc[e] = "confirmed_write" /\ link[e] # <<>>
       /\ raw_read(e) = expected[e] \/ tries[e] < MaxTries
    \/ /\ epc[e] = "message"
       /\ ctx[e] \in {"loop", "put_file_confirm", "execute_command",
                      "get_file"}

\* the file the driver's call names
CalledFile == By("driver")[1].data

\* the driver runs put_file(confirm=True), or get_file for a file the
\* server has, and has sent its ENQ
TransferStarted ==
    \/ ctx["driver"] = "put_file_confirm"
    \/ /\ ctx["driver"] = "get_file"
       /\ CalledFile \in DOMAIN disk["server"]

\* the operation returned, the server is at the top of its loop with
\* nothing to read, and both ack bits are false
TransferOver ==
    /\ epc["driver"] = "done"
    /\ epc["server"] = "loop" /\ link["server"] = <<>>
    /\ ~ack_bit["driver"] /\ ~ack_bit["server"]

\* engine e waits in a raw_read for a write that has not come
BlockedReading(e) ==
    /\ epc[e] \in {"send_handshake", "confirmed_write", "receive_handshake",
                   "read_message", "read_message_next", "receive_eot",
                   "loop"}
    /\ link[e] = <<>>

\* the transfer is over, or one of the engines can go on; and the two are
\* not both blocked reading
Progressing ==
    /\ TransferOver \/ \E e \in Engines : Runnable(e)
    /\ ~(BlockedReading("driver") /\ BlockedReading("server"))

(* C32: a driver that runs put_file with confirm=True, or get_file for a  *)
(* file the server has, against a server that runs loop, over a link that *)
(* loses nothing, always terminates: as long as the operation has not     *)
(* returned with the server back at the top of its loop and both ack bits *)
(* false, one of the engines can take a step (every step adds to what was *)
(* read and written, so the steps come to an end); and no state is        *)
(* reached in which both engines are blocked reading from the link.       *)
C32_Terminates == TransferStarted => Progressing

(* What holds of C32 instead: the same when the table of transactions has *)
(* a "put" entry for the file, so that the server can look its code up.   *)
C32_TerminatesWhenListed ==
    /\ TransferStarted
    /\ header_code_lookup(S_PUT, CalledFile).kind = "ok"
    => Progressing

-----------------------------------------------------------------------------
(* src/remote/erc.py: a handshake or an EOT that reads something else *)

\* the driver waits in the raw_read of the call named by its epc and what
\* arrived is not what the call expects
Mismatch(call, expected_input) ==
    /\ epc["driver"] = call
    /\ link["driver"] # <<>>
    /\ raw_read("driver") # expected_input

\* the step fails with InvalidTransaction and writes nothing
FailsQuietly ==
    /\ epc'["driver"] = "raised"
    /\ ret'["driver"] = [kind |-> "InvalidTransaction", value |-> <<>>]
    /\ link'["server"] = link["server"]
    /\ trace' = trace \o <<Ev("driver", "raw_read", raw_read("driver")),
                           Ev("driver", "raise", <<>>)>>

\* what a mismatch does, the ack_bit after a failed send_handshake on a
\* fresh session being after_send
MismatchEffect(after_send) ==
    /\ Mismatch("send_handshake", ACK0) =>
          FailsQuietly /\ ack_bit'["driver"] = after_send
    /\ Mismatch("receive_handshake", ENQ) =>
          FailsQuietly /\ ack_bit'["driver"] = ack_bit["driver"]
    /\ Mismatch("receive_eot", EOT) =>
          FailsQuietly /\ ack_bit'["driver"] = ack_bit["driver"]

(* C33: when send_handshake, receive_handshake or receive_eot reads       *)
(* something other than what it expects (ACK0 on a fresh session, ENQ,    *)
(* EOT), it fails with InvalidTransaction, writes nothing after that read *)
(* and leaves ack_bit at the value it had before the call: false for the  *)
(* send_handshake of a fresh session, which can then be repeated and      *)
(* expects ACK0 again.                                                    *)
C33_Mismatch == [][MismatchEffect(FALSE)]_vars

(* What holds of C33 instead: the same, but a failed send_handshake       *)
(* leaves ack_bit flipped (true on a fresh session).                      *)
C33_MismatchFlipsSender == [][MismatchEffect(TRUE)]_vars

-----------------------------------------------------------------------------
(* src/remote/erc.py: what get_file stores *)

\* get_file has read the reply, and it does not carry a file: its code is
\* not 02,0xx
NoFileReplied ==
    /\ epc["driver"] = "message" /\ ctx["driver"] = "get_file"
    /\ SubSeq(rx["driver"].header, 1, 4) # <<48, 50, 44, 48>>

(* C34: get_file creates or overwrites a local file only when the reply   *)
(* carries a file-bearing code (02,0xx): when the peer answers with a     *)
(* 90,000 message such as 4040 (file absent), get_file creates no file    *)
(* and changes no file.                                                   *)
C34_NoFileNoWrite ==
    [][NoFileReplied => disk'["driver"] = disk["driver"]]_vars

(* What holds of C34 instead: the reply 90,000 "4040" is stored like a    *)
(* file: its first line is the name, the code gives no extension, and the *)
(* rest, nothing, is the content.                                         *)
C34_ReplyStoredAsFile ==
    [][NoFileReplied =>
          /\ rx["driver"].header = Code(90, 0)
          /\ Partition(rx["driver"].body, 13)[1] = S_4040
          /\ disk'["driver"] =
                [f \in DOMAIN disk["driver"] \cup {S_4040} |->
                    IF f = S_4040 THEN <<>> ELSE disk["driver"][f]]
          /\ ret'["driver"] = [kind |-> "str", value |-> S_4040]]_vars

=============================================================================
